---- MODULE Spec2Model ----
(***************************************************************************)
(* Model of the retry decision engine of sgaunet/retry (pkg/retry):        *)
(* the stop / success / retry predicates, their AND/OR composition with    *)
(* merged cancellation, the backoff delay between attempts, the attempt    *)
(* execution bound to the caller's context, and the final error selection. *)
(***************************************************************************)
EXTENDS Integers, Sequences, FiniteSets, TLC

(***************************************************************************)
(* Bounds of the model.                                                    *)
(***************************************************************************)
\* largest maxTries given to NewStopOnMaxTries
MaxN == 3
\* largest backoff delay, in clock ticks
MaxDelay == 2
\* cap on the attempt counter for policies that never stop by themselves
MaxAttempts == MaxN + 1
\* width in bits of time.Duration and int in the model (64 in the program)
DurationBits == 6
\* largest attempt index given to NextDelay when a strategy is used alone
MaxCallAttempt == 8
\* the jitter fraction of JitterBackoff is a multiple of 1 / JitterDen
JitterDen == 2
\* bits of the mantissa of a float64 (53 in the program): the integers up to
\* 2^MantissaBits are floats, math.MaxInt64 is not
MantissaBits == DurationBits - 2
\* the floats that are not integers are held as multiples of 1 / 2^FracBits
FracBits == 10
\* bound of the random draw of JitterBackoff, the largest integer of the
\* mantissa (1<<53 - 1 in the program)
RandMax == 2^MantissaBits - 1

(***************************************************************************)
(* Program constants.                                                      *)
(***************************************************************************)
signalExitCodeBase == 128
SIGKILL == 9
SIGTERM == 15

(***************************************************************************)
(* Values.                                                                 *)
(***************************************************************************)
\* the pattern used by the output predicates, and the texts a process prints
Pat == <<"a", "b">>
Stdouts == {<<>>, <<"a">>, <<"a", "b">>}
Stderrs == {<<>>, <<"b">>}
\* exit statuses of a process that exits by itself
ExitStatuses == {0, 1, 2}
\* signals that end a process from outside
ExitSignals == {SIGTERM}

\* strings.Contains
Contains(s, p) ==
  \E i \in 0..(Len(s) - Len(p)) : SubSeq(s, i + 1, i + Len(p)) = p

\* the patterns given to the constructors: a text is a sequence of the
\* characters "a", "b", "(" and, in a pattern, "." ; read as a regular
\* expression "." stands for any one character and "(" opens a group that
\* nothing closes
Patterns == {<<>>, Pat, <<"a", ".">>, <<"(">>}

\* regexp.Compile(pattern) returns no error
Compiles(p) == \A j \in 1..Len(p) : p[j] # "("

\* regex.MatchString(s) of a compiled pattern: an unanchored match
MatchString(p, s) ==
  \E i \in 0..(Len(s) - Len(p)) :
    \A j \in 1..Len(p) : p[j] = "." \/ p[j] = s[i + j]

\* the match of the Contains-style predicates: the compiled pattern when
\* there is one, strings.Contains otherwise
Matches(p, s) == IF Compiles(p) THEN MatchString(p, s) ELSE Contains(s, p)

\* ctx.Err() of a context: nil while it is live (or the background context)
CtxErr(c) == IF c \in {"Canceled", "DeadlineExceeded"} THEN c ELSE "nil"

\* the effect of a CancelFunc on a context
CancelCtx(c) == IF c = "live" THEN "Canceled" ELSE c

(***************************************************************************)
(* Predicates (ConditionRetryer implementations).                          *)
(***************************************************************************)
Cond(kind, n, codes, pattern, flag, c) ==
  [kind |-> kind, maxTries |-> n, tries |-> 0, codes |-> codes,
   pattern |-> pattern, flag |-> flag, ctx |-> c, elapsed |-> FALSE,
   contains |-> FALSE]

\* the nil pointer returned with a construction error
NilCond == Cond("nil", 0, {}, <<>>, FALSE, "Background")

NewStopOnMaxTries(n) == Cond("StopOnMaxTries", n, {}, <<>>, FALSE, "Background")
NewStopOnMaxExecTime == Cond("StopOnMaxExecutionTime", 0, {}, <<>>, FALSE, "live")
NewStopOnTimeout == Cond("StopOnTimeout", 0, {}, <<>>, FALSE, "live")
NewStopOnExitCode(codes) == Cond("StopOnExitCode", 0, codes, <<>>, FALSE, "Background")
NewRetryOnExitCode(codes) == Cond("RetryOnExitCode", 0, codes, <<>>, TRUE, "Background")
NewSuccessOnExitCode(codes) == Cond("SuccessOnExitCode", 0, codes, <<>>, FALSE, "Background")

\* the constructors that take a pattern return (predicate, error)
NewSuccessContains(p) ==
  <<Cond("SuccessContains", 0, {}, p, FALSE, "Background"), "nil">>
NewFailIfContains(p) ==
  <<Cond("FailIfContains", 0, {}, p, FALSE, "Background"), "nil">>
NewRetryIfContains(p) ==
  <<Cond("RetryIfContains", 0, {}, p, TRUE, "Background"), "nil">>
NewStopOnOutputContains(p) ==
  <<[Cond("StopOnOutputPattern", 0, {}, p, FALSE, "Background")
       EXCEPT !.contains = TRUE], "nil">>
NewStopOnOutputNotContains(p) ==
  <<Cond("StopOnOutputPattern", 0, {}, p, FALSE, "Background"), "nil">>

\* variant: an invalid pattern is accepted and matched literally
NewRetryRegex_Lenient(p) ==
  <<Cond("RetryRegex", 0, {}, p, TRUE, "Background"), "nil">>

NewRetryRegex(p) ==
  IF Compiles(p)
  THEN <<Cond("RetryRegex", 0, {}, p, TRUE, "Background"), "nil">>
  ELSE <<NilCond, "invalid regex pattern">>

NewSuccessRegex(p) ==
  IF Compiles(p)
  THEN <<Cond("SuccessRegex", 0, {}, p, FALSE, "Background"), "nil">>
  ELSE <<NilCond, "invalid regex pattern">>

\* the kinds that implement EnhancedConditionRetryer
EnhancedKinds ==
  {"StopOnExitCode", "RetryOnExitCode", "SuccessOnExitCode", "SuccessContains",
   "FailIfContains", "RetryIfContains", "RetryRegex", "SuccessRegex",
   "StopOnOutputPattern", "CompositeCondition"}

\* variant: only SuccessOnExitCode counts as a success condition
isSuccessCondition_ExitCodeOnly(c) == c.kind \in {"SuccessOnExitCode"}

\* CompositeCondition.isSuccessCondition
isSuccessCondition(c) == c.kind \in {"SuccessOnExitCode", "SuccessContains", "SuccessRegex"}

\* variant: maxTries = 0 is not treated as unbounded
StopOnMaxTries_IsLimitReached_ZeroReached(s) == s.tries >= s.maxTries

\* variant: StopOnMaxTries compares with > instead of >=
StopOnMaxTries_IsLimitReached_OffByOne(s) ==
  IF s.maxTries = 0 THEN FALSE ELSE s.tries > s.maxTries

\* StopOnMaxTries.IsLimitReached: never reached when maxTries is 0
StopOnMaxTries_IsLimitReached(s) ==
  IF s.maxTries = 0 THEN FALSE ELSE s.tries >= s.maxTries

\* StopOnMaxTries.StartTry
StopOnMaxTries_StartTry(s) == [s EXCEPT !.tries = @ + 1]

\* StopOnMaxExecutionTime.IsLimitReached
StopOnMaxExecutionTime_IsLimitReached(s) == CtxErr(s.ctx) # "nil"

\* StopOnMaxExecutionTime.StartTry
StopOnMaxExecutionTime_StartTry(s) == [s EXCEPT !.tries = @ + 1]

\* variant: EndTry leaves the predicate's context alone
StopOnMaxExecutionTime_EndTry_NoCancel(s) == s

\* StopOnMaxExecutionTime.EndTry: cancels the predicate's own context
StopOnMaxExecutionTime_EndTry(s) == [s EXCEPT !.ctx = CancelCtx(@)]

\* StopOnTimeout.IsLimitReached
StopOnTimeout_IsLimitReached(s) == s.elapsed \/ CtxErr(s.ctx) # "nil"

\* StopOnExitCode.IsLimitReached
StopOnExitCode_IsLimitReached(s) == s.flag

\* a variant that never leaves the reached state
StopOnExitCode_SetLastExitCode_Sticky(s, code) == [s EXCEPT !.flag = (@ \/ code \in s.codes)]

\* StopOnExitCode.SetLastExitCode
StopOnExitCode_SetLastExitCode(s, code) == [s EXCEPT !.flag = (code \in s.codes)]

\* RetryOnExitCode.IsLimitReached
RetryOnExitCode_IsLimitReached(r) == ~r.flag

\* variant: a retry code cannot re-open a predicate that an earlier exit code
\* has closed
RetryOnExitCode_SetLastExitCode_Sticky(r, code) ==
  [r EXCEPT !.flag = (@ /\ code \in r.codes)]

\* RetryOnExitCode.SetLastExitCode
RetryOnExitCode_SetLastExitCode(r, code) == [r EXCEPT !.flag = (code \in r.codes)]

\* SuccessOnExitCode.IsLimitReached
SuccessOnExitCode_IsLimitReached(s) == s.flag

\* SuccessOnExitCode.SetLastExitCode
SuccessOnExitCode_SetLastExitCode(s, code) == [s EXCEPT !.flag = (code \in s.codes)]

\* SuccessContains.IsLimitReached
SuccessContains_IsLimitReached(s) == s.flag

\* variant: the pattern is searched in stdout only
SuccessContains_SetLastOutput_StdoutOnly(s, stdout, stderr) ==
  [s EXCEPT !.flag = Contains(stdout, s.pattern)]

\* SuccessContains.SetLastOutput
SuccessContains_SetLastOutput(s, stdout, stderr) ==
  [s EXCEPT !.flag = Matches(s.pattern, stdout \o stderr)]

\* FailIfContains.IsLimitReached
FailIfContains_IsLimitReached(f) == f.flag

\* FailIfContains.SetLastOutput
FailIfContains_SetLastOutput(f, stdout, stderr) ==
  [f EXCEPT !.flag = Matches(f.pattern, stdout \o stderr)]

\* RetryIfContains.IsLimitReached
RetryIfContains_IsLimitReached(r) == ~r.flag

\* RetryIfContains.SetLastOutput
RetryIfContains_SetLastOutput(r, stdout, stderr) ==
  [r EXCEPT !.flag = Matches(r.pattern, stdout \o stderr)]

\* RetryRegex.IsLimitReached
RetryRegex_IsLimitReached(r) == ~r.flag

\* RetryRegex.SetLastOutput
RetryRegex_SetLastOutput(r, stdout, stderr) ==
  [r EXCEPT !.flag = MatchString(r.pattern, stdout \o stderr)]

\* SuccessRegex.IsLimitReached
SuccessRegex_IsLimitReached(s) == s.flag

\* SuccessRegex.SetLastOutput
SuccessRegex_SetLastOutput(s, stdout, stderr) ==
  [s EXCEPT !.flag = MatchString(s.pattern, stdout \o stderr)]

\* StopOnOutputPattern.IsLimitReached
StopOnOutputPattern_IsLimitReached(s) == s.flag

\* variant: a feed can only set shouldStop, never clear it
StopOnOutputPattern_SetLastOutput_Sticky(s, stdout, stderr) ==
  LET matches == Matches(s.pattern, stdout \o stderr)
  IN [s EXCEPT !.flag = (@ \/ IF s.contains THEN matches ELSE ~matches)]

\* StopOnOutputPattern.SetLastOutput
StopOnOutputPattern_SetLastOutput(s, stdout, stderr) ==
  LET matches == Matches(s.pattern, stdout \o stderr)
  IN [s EXCEPT !.flag = IF s.contains THEN matches ELSE ~matches]

\* StopOnTimeout.Cancel
StopOnTimeout_Cancel(s) == [s EXCEPT !.ctx = CancelCtx(@)]

\* a CompositeCondition given as a sub-condition of another one: it has its
\* own cancellable context, and no monitoring goroutine as long as none of
\* its own sub-conditions has a cancellable context
SubComposite(logic, conds) ==
  Cond("CompositeCondition", 0, {}, <<>>, FALSE, "live")
    @@ [logic |-> logic, conditions |-> conds]

\* ConditionRetryer.IsLimitReached, dispatched on the dynamic type
RECURSIVE CondIsLimitReached(_)
CondIsLimitReached(c) ==
  CASE c.kind = "StopOnMaxTries" -> StopOnMaxTries_IsLimitReached(c)
    [] c.kind = "StopOnMaxExecutionTime" -> StopOnMaxExecutionTime_IsLimitReached(c)
    [] c.kind = "StopOnTimeout" -> StopOnTimeout_IsLimitReached(c)
    [] c.kind = "StopOnExitCode" -> StopOnExitCode_IsLimitReached(c)
    [] c.kind = "RetryOnExitCode" -> RetryOnExitCode_IsLimitReached(c)
    [] c.kind = "SuccessOnExitCode" -> SuccessOnExitCode_IsLimitReached(c)
    [] c.kind = "SuccessContains" -> SuccessContains_IsLimitReached(c)
    [] c.kind = "FailIfContains" -> FailIfContains_IsLimitReached(c)
    [] c.kind = "RetryIfContains" -> RetryIfContains_IsLimitReached(c)
    [] c.kind = "RetryRegex" -> RetryRegex_IsLimitReached(c)
    [] c.kind = "SuccessRegex" -> SuccessRegex_IsLimitReached(c)
    [] c.kind = "StopOnOutputPattern" -> StopOnOutputPattern_IsLimitReached(c)
    [] c.kind = "CompositeCondition" ->
         IF c.logic = "AND"
         THEN \A i \in 1..Len(c.conditions) :
                isSuccessCondition(c.conditions[i])
                \/ CondIsLimitReached(c.conditions[i])
         ELSE \E i \in 1..Len(c.conditions) :
                ~isSuccessCondition(c.conditions[i])
                /\ CondIsLimitReached(c.conditions[i])

\* ConditionRetryer.StartTry: a no-op for the other predicates
RECURSIVE CondStartTry(_)
CondStartTry(c) ==
  CASE c.kind = "StopOnMaxTries" -> StopOnMaxTries_StartTry(c)
    [] c.kind = "StopOnMaxExecutionTime" -> StopOnMaxExecutionTime_StartTry(c)
    [] c.kind = "CompositeCondition" ->
         [c EXCEPT !.conditions = [i \in 1..Len(@) |-> CondStartTry(@[i])]]
    [] OTHER -> c

\* ConditionRetryer.EndTry: a no-op for the other predicates
RECURSIVE CondEndTry(_)
CondEndTry(c) ==
  CASE c.kind = "StopOnMaxExecutionTime" -> StopOnMaxExecutionTime_EndTry(c)
    [] c.kind = "CompositeCondition" ->
         [c EXCEPT !.conditions = [i \in 1..Len(@) |-> CondEndTry(@[i])]]
    [] OTHER -> c

\* EnhancedConditionRetryer.SetLastExitCode: unused by the output predicates
RECURSIVE CondSetLastExitCode(_, _)
CondSetLastExitCode(c, code) ==
  CASE c.kind = "CompositeCondition" ->
         [c EXCEPT !.conditions =
            [i \in 1..Len(@) |->
               IF @[i].kind \in EnhancedKinds THEN CondSetLastExitCode(@[i], code)
               ELSE @[i]]]
    [] c.kind = "StopOnExitCode" -> StopOnExitCode_SetLastExitCode(c, code)
    [] c.kind = "RetryOnExitCode" -> RetryOnExitCode_SetLastExitCode(c, code)
    [] c.kind = "SuccessOnExitCode" -> SuccessOnExitCode_SetLastExitCode(c, code)
    [] OTHER -> c

\* EnhancedConditionRetryer.SetLastOutput: unused by the exit code predicates
RECURSIVE CondSetLastOutput(_, _, _)
CondSetLastOutput(c, stdout, stderr) ==
  CASE c.kind = "CompositeCondition" ->
         [c EXCEPT !.conditions =
            [i \in 1..Len(@) |->
               IF @[i].kind \in EnhancedKinds
               THEN CondSetLastOutput(@[i], stdout, stderr) ELSE @[i]]]
    [] c.kind = "SuccessContains" -> SuccessContains_SetLastOutput(c, stdout, stderr)
    [] c.kind = "FailIfContains" -> FailIfContains_SetLastOutput(c, stdout, stderr)
    [] c.kind = "RetryIfContains" -> RetryIfContains_SetLastOutput(c, stdout, stderr)
    [] c.kind = "RetryRegex" -> RetryRegex_SetLastOutput(c, stdout, stderr)
    [] c.kind = "SuccessRegex" -> SuccessRegex_SetLastOutput(c, stdout, stderr)
    [] c.kind = "StopOnOutputPattern" ->
         StopOnOutputPattern_SetLastOutput(c, stdout, stderr)
    [] OTHER -> c

\* Cancel of a sub-condition: only the types with a Cancel method have one
RECURSIVE CondCancel(_)
CondCancel(c) ==
  CASE c.kind = "StopOnTimeout" -> StopOnTimeout_Cancel(c)
    [] c.kind = "CompositeCondition" ->
         [c EXCEPT !.ctx = CancelCtx(@),
                   !.conditions = [i \in 1..Len(@) |-> CondCancel(@[i])]]
    [] OTHER -> c

\* the feed of executeSingleTryWithLogger to one predicate of the success list
CondFeed(c, code, stdout, stderr) ==
  IF c.kind \in EnhancedKinds
  THEN CondSetLastOutput(CondSetLastExitCode(c, code), stdout, stderr)
  ELSE c

(***************************************************************************)
(* The stop predicate: a single predicate or a CompositeCondition.         *)
(***************************************************************************)
Single(c) ==
  [composite |-> FALSE, logic |-> "OR", conditions |-> <<c>>,
   ctx |-> "Background", monitors |-> <<>>]

\* createMergedContext: the contexts of the sub-conditions that are not the
\* background context
timeoutCtxs(conds) == {i \in 1..Len(conds) : conds[i].ctx # "Background"}

\* variant: one monitoring goroutine per monitored context
NewCompositeCondition_PerContext(logic, conds) ==
  [composite |-> TRUE, logic |-> logic, conditions |-> conds, ctx |-> "live",
   monitors |-> [g \in 1..Cardinality(timeoutCtxs(conds)) |-> "waiting"]]

\* NewCompositeCondition with createMergedContext: a fresh cancellable
\* context and a single monitoring goroutine when timeoutCtxs is not empty;
\* monitors holds the state of every goroutine the composite has started
NewCompositeCondition(logic, conds) ==
  [composite |-> TRUE, logic |-> logic, conditions |-> conds, ctx |-> "live",
   monitors |-> IF timeoutCtxs(conds) # {} THEN <<"waiting">> ELSE <<>>]

\* GetCtx of the stop predicate
GetCtx(cond) == IF cond.composite THEN cond.ctx ELSE cond.conditions[1].ctx

\* variant: the Success* sub-conditions are not skipped
IsLimitReached_NoSkip(cond) ==
  IF ~cond.composite THEN CondIsLimitReached(cond.conditions[1])
  ELSE IF cond.logic = "AND"
       THEN \A i \in 1..Len(cond.conditions) :
              CondIsLimitReached(cond.conditions[i])
       ELSE \E i \in 1..Len(cond.conditions) :
              CondIsLimitReached(cond.conditions[i])

\* IsLimitReached of the stop predicate
IsLimitReached(cond) ==
  IF ~cond.composite THEN CondIsLimitReached(cond.conditions[1])
  ELSE IF cond.logic = "AND"
       THEN \A i \in 1..Len(cond.conditions) :
              isSuccessCondition(cond.conditions[i])
              \/ CondIsLimitReached(cond.conditions[i])
       ELSE \E i \in 1..Len(cond.conditions) :
              ~isSuccessCondition(cond.conditions[i])
              /\ CondIsLimitReached(cond.conditions[i])

\* StartTry of the stop predicate
StartTry(cond) ==
  [cond EXCEPT !.conditions = [i \in 1..Len(@) |-> CondStartTry(@[i])]]

\* EndTry of the stop predicate
EndTry(cond) ==
  [cond EXCEPT !.conditions = [i \in 1..Len(@) |-> CondEndTry(@[i])]]

\* SetLastExitCode then SetLastOutput on the stop predicate, when enhanced
Feed(cond, code, stdout, stderr) ==
  IF cond.composite \/ cond.conditions[1].kind \in EnhancedKinds
  THEN [cond EXCEPT !.conditions =
          [i \in 1..Len(@) |-> CondFeed(@[i], code, stdout, stderr)]]
  ELSE cond

\* variant: the loop ends after the first enhanced sub-condition
SetLastExitCode_FirstOnly(cond, code) ==
  IF cond.composite \/ cond.conditions[1].kind \in EnhancedKinds
  THEN [cond EXCEPT !.conditions =
          [i \in 1..Len(@) |->
             IF /\ @[i].kind \in EnhancedKinds
                /\ \A j \in 1..(i - 1) : @[j].kind \notin EnhancedKinds
             THEN CondSetLastExitCode(@[i], code)
             ELSE @[i]]]
  ELSE cond

\* SetLastExitCode called on the stop predicate
SetLastExitCode(cond, code) ==
  IF cond.composite \/ cond.conditions[1].kind \in EnhancedKinds
  THEN [cond EXCEPT !.conditions =
          [i \in 1..Len(@) |->
             IF @[i].kind \in EnhancedKinds THEN CondSetLastExitCode(@[i], code)
             ELSE @[i]]]
  ELSE cond

\* SetLastOutput called on the stop predicate
SetLastOutput(cond, stdout, stderr) ==
  IF cond.composite \/ cond.conditions[1].kind \in EnhancedKinds
  THEN [cond EXCEPT !.conditions =
          [i \in 1..Len(@) |->
             IF @[i].kind \in EnhancedKinds
             THEN CondSetLastOutput(@[i], stdout, stderr) ELSE @[i]]]
  ELSE cond

\* CompositeCondition.Cancel: cancels its own context, then calls Cancel on
\* every sub-condition that has the method; StopOnTimeout.Cancel otherwise
Cancel(cond) ==
  IF cond.composite
  THEN [cond EXCEPT !.ctx = CancelCtx(@),
                    !.conditions = [i \in 1..Len(@) |-> CondCancel(@[i])]]
  ELSE [cond EXCEPT !.conditions = [i \in 1..Len(@) |-> CondCancel(@[i])]]

(***************************************************************************)
(* Backoff strategies.                                                     *)
(***************************************************************************)
\* math.MaxInt64 and math.MinInt64, for the width of the model
MaxInt64 == 2^(DurationBits - 1) - 1
MinInt64 == -(2^(DurationBits - 1))

\* the value of an integer expression in two's complement arithmetic
Wrap(x) == ((x - MinInt64) % 2^DurationBits) + MinInt64

\* math.Pow for a whole multiplier and a whole exponent >= 0
RECURSIVE Pow(_, _)
Pow(m, k) == IF k <= 0 THEN 1 ELSE m * Pow(m, k - 1)

Strategy(kind, base, inc, max, mult, delays, seq) ==
  [kind |-> kind, base |-> base, increment |-> inc, max |-> max,
   multiplier |-> mult, delays |-> delays, sequence |-> seq]

\* a nil BackoffStrategy
NoBackoff == Strategy("nil", 0, 0, 0, 0, <<>>, <<>>)
NewFixedBackoff(d) == Strategy("Fixed", d, 0, 0, 0, <<>>, <<>>)
NewLinearBackoff(b, inc, max) == Strategy("Linear", b, inc, max, 0, <<>>, <<>>)
NewExponentialBackoff(b, max, mult) ==
  Strategy("Exponential", b, 0, max, mult, <<>>, <<>>)
NewFibonacciBackoff(b, max) == Strategy("Fibonacci", b, 0, max, 0, <<>>, <<1, 1>>)
NewCustomBackoff(delays) == Strategy("Custom", 0, 0, 0, 0, delays, <<>>)

\* NewJitterBackoff: the jitter, here in units of 1 / JitterDen, is clamped
\* into [0, 1]
NewJitterBackoff(strategy, jitter) ==
  [kind |-> "Jitter", strategy |-> strategy,
   jitter |-> IF jitter < 0 THEN 0 ELSE IF jitter > JitterDen THEN JitterDen
              ELSE jitter]

\* FixedBackoff.NextDelay
FixedBackoff_NextDelay(f, attempt) == f.base

\* LinearBackoff.NextDelay
LinearBackoff_NextDelay(l, attempt) ==
  IF attempt <= 0 THEN l.base
  ELSE LET delay == Wrap(l.base + Wrap((attempt - 1) * l.increment))
       IN IF l.max > 0 /\ delay > l.max THEN l.max ELSE delay

\* the gap between two neighbouring floats around a >= 0, in units of the
\* numerators: 1 below 2^MantissaBits, doubling at every power of two
RECURSIVE Spacing(_, _)
Spacing(a, s) == IF a < 2^MantissaBits * s THEN s ELSE Spacing(a, 2 * s)

\* the float nearest to N / D, a number of MantissaBits significant bits: the
\* rounding of every float64 operation, to nearest with ties to the even
\* mantissa
RoundFloat(N, D) ==
  LET a == IF N < 0 THEN -N ELSE N
      s == Spacing(a \div D, 1)
      q == a \div (D * s)
      rem == a - q * D * s
      r == IF 2 * rem < D * s \/ (2 * rem = D * s /\ q % 2 = 0) THEN q * s
           ELSE (q + 1) * s
  IN IF N < 0 THEN -r ELSE r

\* float64(d) of a duration: a duration beyond 2^MantissaBits is rounded to
\* the nearest float, math.MaxInt64 up to 2^63
Float64(d) == RoundFloat(d, 1)

\* what a build gives for time.Duration(f) when f is beyond the range of a
\* duration: the result depends on the implementation
Conversions == {MinInt64, MaxInt64}

\* time.Duration(f) of the float64 num / den >= 0: the integer part; when it
\* is out of range the result depends on the implementation (conv)
Duration(num, den, conv) ==
  IF num \div den > MaxInt64 THEN conv ELSE num \div den

\* ExponentialBackoff.NextDelay: the delay is a float64 until the last
\* line, and both tests compare it with a float64; a delay of exactly 2^63
\* passes both when MaxDelay is math.MaxInt64 and is then converted
ExponentialBackoff_NextDelay(e, attempt, conv) ==
  IF attempt <= 0 THEN e.base
  ELSE LET delay == Float64(e.base) * Pow(e.multiplier, attempt - 1)
       IN IF delay > Float64(e.max) THEN e.max
          ELSE IF delay > Float64(MaxInt64) THEN e.max
          ELSE Duration(delay, 1, conv)

\* FibonacciBackoff.NextDelay, the loop that extends f.sequence
RECURSIVE FibonacciBackoff_sequence(_, _)
FibonacciBackoff_sequence(seq, attempt) ==
  IF Len(seq) < attempt
  THEN FibonacciBackoff_sequence(
         Append(seq, Wrap(seq[Len(seq)] + seq[Len(seq) - 1])), attempt)
  ELSE seq

\* FibonacciBackoff.NextDelay
FibonacciBackoff_NextDelay(f, attempt) ==
  IF attempt <= 0 THEN f.base
  ELSE LET fibMultiplier == FibonacciBackoff_sequence(f.sequence, attempt)[attempt]
           delay == Wrap(fibMultiplier * f.base)
       IN IF f.max > 0 /\ delay > f.max THEN f.max ELSE delay

\* variant: an attempt beyond the list starts the list again
CustomBackoff_NextDelay_Cycle(c, attempt) ==
  IF attempt <= 0 \/ Len(c.delays) = 0 THEN 0
  ELSE c.delays[((attempt - 1) % Len(c.delays)) + 1]

\* CustomBackoff.NextDelay
CustomBackoff_NextDelay(c, attempt) ==
  IF attempt <= 0 \/ Len(c.delays) = 0 THEN 0
  ELSE LET index == IF attempt - 1 >= Len(c.delays) THEN Len(c.delays) - 1
                    ELSE attempt - 1
       IN c.delays[index + 1]

\* NextDelay of a strategy that draws no random number; conv is what the
\* build gives for an out-of-range conversion
NextDelay(b, attempt, conv) ==
  CASE b.kind = "Fixed" -> FixedBackoff_NextDelay(b, attempt)
    [] b.kind = "Linear" -> LinearBackoff_NextDelay(b, attempt)
    [] b.kind = "Exponential" -> ExponentialBackoff_NextDelay(b, attempt, conv)
    [] b.kind = "Fibonacci" -> FibonacciBackoff_NextDelay(b, attempt)
    [] b.kind = "Custom" -> CustomBackoff_NextDelay(b, attempt)
    [] OTHER -> 0

\* the strategy after NextDelay: only FibonacciBackoff keeps a state
AfterNextDelay(b, attempt) ==
  IF b.kind = "Fibonacci" /\ attempt > 0
  THEN [b EXCEPT !.sequence = FibonacciBackoff_sequence(@, attempt)]
  ELSE b

\* the JitterBackoff after NextDelay: the wrapped strategy has been called
JitterBackoff_after(j, attempt) ==
  IF j.strategy.kind = "nil" THEN j
  ELSE [j EXCEPT !.strategy = AfterNextDelay(@, attempt)]

\* JitterBackoff.NextDelay, for the random draw n of 0 .. RandMax - 1, or
\* the failure randErr of rand.Int, and the outcome conv of an out-of-range
\* conversion. The floats are numerators over one = 2^FracBits and every
\* operation rounds its result:
\*   jitterRange := float64(baseDelay) * j.Jitter
\*   randomFloat := float64(n) / float64(maxInt)
\*   jitterValue := (randomFloat*2 - 1) * jitterRange
\*   finalDelay := float64(baseDelay) + jitterValue
JitterBackoff_NextDelay(j, attempt, n, randErr, conv) ==
  IF j.strategy.kind = "nil" THEN 0
  ELSE LET baseDelay == NextDelay(j.strategy, attempt, conv)
       IN IF baseDelay = 0 \/ j.jitter = 0 THEN baseDelay
          ELSE IF randErr THEN baseDelay
          ELSE LET one == 2^FracBits
                   Jitter == RoundFloat(j.jitter * one, JitterDen)
                   jitterRange == RoundFloat(Float64(baseDelay) * Jitter, 1)
                   randomFloat == RoundFloat(n * one, RandMax)
                   jitterValue ==
                     RoundFloat(RoundFloat(randomFloat * 2 - one, 1) * jitterRange,
                                one)
                   finalDelay ==
                     RoundFloat(Float64(baseDelay) * one + jitterValue, 1)
               IN IF finalDelay < 0 THEN 0 ELSE Duration(finalDelay, one, conv)

(***************************************************************************)
(* State of one Run.                                                       *)
(***************************************************************************)
VARIABLES
  cmd,                \* Retry.cmd, as the argument list parseCommand yields
  condition,          \* Retry.condition
  successConditions,  \* Retry.successConditions
  backoff,            \* Retry.backoff
  tries,              \* Retry.tries
  lastExitCode,       \* Retry.lastExitCode
  err,                \* err of executeRetryLoop
  ctx,                \* the caller's root context
  pc,                 \* position of the control thread
  attempt,            \* result of the executor for the current attempt
  sleepLeft,          \* remaining ticks of time.Sleep(delay)
  result,             \* error returned by Run
  nFailed,            \* number of attempts whose executor returned an error
  nDelays,            \* number of NextDelay calls made by the loop
  nStartTry,          \* StartTry calls made directly on the condition
  fedCode,            \* last exit code given directly to SetLastExitCode
  fedOutput,          \* last output given directly to SetLastOutput
  cancelCalled,       \* Cancel() has been called on the condition
  newCall,            \* the constructor call that made the condition
  executor,           \* one run of execCommandWithOutputAndLogger, step by step
  calls,              \* the last two NextDelay calls made on a strategy alone
  events              \* the calls executeSingleTryWithLogger has made in this attempt

\* the variables of a Run
rvars == <<cmd, successConditions, backoff, tries, lastExitCode, err, ctx, pc,
           attempt, sleepLeft, result, nFailed, nDelays>>

\* the record of the direct calls on a condition
tvars == <<nStartTry, fedCode, fedOutput, cancelCalled, newCall>>

\* the variables of the executor and of the backoff strategies taken alone
xvars == <<executor, calls, events>>

vars == <<cmd, condition, successConditions, backoff, tries, lastExitCode, err,
          ctx, pc, attempt, sleepLeft, result, nFailed, nDelays, nStartTry,
          fedCode, fedOutput, cancelCalled, newCall, executor, calls, events>>

\* no exit code / no output has been given yet
NoCode == -2
NoOutput == <<<<"none">>, <<>>>>
\* the condition was not made by a constructor that takes a pattern
NoCall == [ctor |-> "none", pattern |-> <<>>, err |-> "nil"]

NoAttempt == [rc |-> 0, stdout |-> <<>>, stderr |-> <<>>, err |-> "nil", how |-> "none"]

\* the error returned by c.Wait() or c.Start(): nil, an *exec.ExitError whose
\* wait status says exited with a status or ended by a signal, or another
\* error
NilError == [type |-> "nil", signaled |-> FALSE, status |-> 0, signal |-> 0]
ExitError(st) == [type |-> "ExitError", signaled |-> FALSE, status |-> st, signal |-> 0]
SignalError(sig) == [type |-> "ExitError", signaled |-> TRUE, status |-> 0, signal |-> sig]
StartError == [type |-> "Error", signaled |-> FALSE, status |-> 0, signal |-> 0]
\* ctx.Err() as returned by c.Wait()
WaitCtxError == [type |-> "CtxError", signaled |-> FALSE, status |-> 0, signal |-> 0]

\* what c.Wait() returns for a process whose wait status gives e, under a
\* context in state c: when the context is done and the process has exited
\* with status 0, the Kill of exec.CommandContext may reach the process
\* before it is reaped, and Wait then returns ctx.Err() in place of nil
CmdWaitErrors(e, c) ==
  IF e.type = "nil" /\ c # "live" THEN {e, WaitCtxError} ELSE {e}

\* c.Wait() of a process that exited by itself with status st
WaitExited(st) == IF st = 0 THEN NilError ELSE ExitError(st)

\* ExitError.ExitCode(): -1 when the process was ended by a signal
ExitCode(e) == IF e.signaled THEN -1 ELSE e.status

\* getExitCode: 0 for a nil error, the exit code of an ExitError, else -1
getExitCode(e) ==
  IF e.type = "nil" THEN 0
  ELSE IF e.type = "ExitError" THEN ExitCode(e)
  ELSE -1

\* variant: the signal number itself is reported
checkSignalTermination_NoBase(e) ==
  IF e.type # "ExitError" \/ ~e.signaled
  THEN <<0, "nil">>
  ELSE <<e.signal, "ErrCommandTerminatedBySignal">>

\* checkSignalTermination: (128 + signal, ErrCommandTerminatedBySignal) for a
\* process ended by a signal, (0, nil) otherwise
checkSignalTermination(e) ==
  IF e.type # "ExitError" \/ ~e.signaled
  THEN <<0, "nil">>
  ELSE <<signalExitCodeBase + e.signal, "ErrCommandTerminatedBySignal">>

\* the result of waitForCommandCompletion from the error of c.Wait() and the
\* two accumulators
waitResult(e, stdoutStr, stderrStr) ==
  LET exitCode == getExitCode(e)
      sig == checkSignalTermination(e)
  IN IF sig[1] # 0
     THEN [rc |-> sig[1], stdout |-> stdoutStr, stderr |-> stderrStr, err |-> sig[2]]
     ELSE IF e.type # "nil"
     THEN [rc |-> exitCode, stdout |-> stdoutStr, stderr |-> stderrStr,
           err |-> "ErrExit"]
     ELSE [rc |-> exitCode, stdout |-> stdoutStr, stderr |-> stderrStr,
           err |-> "nil"]

\* the result of executeCommandWithPipes when c.Start() fails
startFailure ==
  [rc |-> getExitCode(StartError), stdout |-> <<>>, stderr |-> <<>>,
   err |-> "ErrStart"]

\* the result of execCommandWithOutputAndLogger when parseCommand fails
parseFailure ==
  [rc |-> -1, stdout |-> <<>>, stderr |-> <<>>, err |-> "ErrEmptyCommand"]

\* the attempt of the engine made from a result of the executor
Attempt(r, how) ==
  [rc |-> r.rc, stdout |-> r.stdout, stderr |-> r.stderr, err |-> r.err,
   how |-> how]

\* no result has been returned yet
NoResult == [rc |-> 0, stdout |-> <<>>, stderr |-> <<>>, err |-> "none"]

\* the end of a line in the text of a stream
NL == "\n"

\* the *Logger given to the executor: nil, or a Logger with its output mode,
\* the number of JSONAttempt records of its jsonOutput and the Output field
\* of the last of them
NilLogger == [mode |-> "nil", attempts |-> 0, output |-> <<>>]

\* NewLogger(level, mode, noColor): jsonOutput with no attempt in JSON mode
NewLogger(mode) == [mode |-> mode, attempts |-> 0, output |-> <<>>]

\* Logger.StartAttempt: a new JSONAttempt, with an empty Output, is appended
\* in JSON mode
Logger_StartAttempt(l) ==
  IF l.mode = "JSON" THEN [l EXCEPT !.attempts = @ + 1, !.output = <<>>] ELSE l

\* the PrefixWriter of a streaming goroutine and the place the goroutine is
\* at: its buffer, the line it is giving to LogCommandOutput, the Output it
\* has read in storeJSONOutput, and whether it is in Flush
NoWriter ==
  [pc |-> "copy", buffer |-> <<>>, line |-> <<>>, read |-> <<>>,
   flushing |-> FALSE]

\* the executor before execCommandWithOutputAndLogger is called
NoExecutor ==
  [pc |-> "idle", process |-> "none", werr |-> NilError,
   towrite |-> <<<<>>, <<>>>>, written |-> <<<<>>, <<>>>>,
   pipe |-> <<<<>>, <<>>>>, closed |-> <<FALSE, FALSE>>,
   buf |-> <<<<>>, <<>>>>, done |-> <<FALSE, FALSE>>, result |-> NoResult,
   logger |-> NilLogger, writer |-> <<NoWriter, NoWriter>>]

StopLeaves ==
  {NewStopOnMaxTries(n) : n \in 0..MaxN}
  \cup {NewStopOnMaxExecTime, NewStopOnTimeout, NewStopOnExitCode({2}),
        NewRetryOnExitCode({1}), NewSuccessOnExitCode({1}),
        NewSuccessContains(Pat)[1], NewFailIfContains(Pat)[1]}

CompositeLists ==
  {<<NewStopOnTimeout, NewStopOnMaxTries(n)>> : n \in 1..MaxN}
  \cup {<<NewStopOnMaxTries(MaxN), NewSuccessContains(Pat)[1]>>,
        <<NewStopOnMaxExecTime, NewStopOnExitCode({2})>>,
        <<>>}

StopConditions ==
  {Single(c) : c \in StopLeaves}
  \cup {NewCompositeCondition(l, cs) : l \in {"AND", "OR"}, cs \in CompositeLists}

SuccessLists ==
  {<<>>, <<NewSuccessContains(Pat)[1]>>,
   <<NewSuccessOnExitCode({1}), NewSuccessContains(Pat)[1]>>}

Backoffs ==
  {NoBackoff, NewFixedBackoff(0), NewFixedBackoff(MaxDelay),
   NewLinearBackoff(0, 1, MaxDelay)}

Commands == {<<>>, <<"prog">>}

\* a nil ConditionRetryer
NilCondition ==
  [composite |-> FALSE, logic |-> "OR", conditions |-> <<>>,
   ctx |-> "Background", monitors |-> <<>>]

\* NewRetry: the only construction-time check is the nil condition
NewRetry(c, cond) == IF cond = NilCondition THEN "ErrConditionNil" ELSE "nil"

Init ==
  /\ cmd \in Commands
  /\ condition \in StopConditions \cup {NilCondition}
  /\ NewRetry(cmd, condition) = "nil"
  /\ successConditions \in SuccessLists
  /\ backoff \in Backoffs
  /\ tries = 0
  /\ lastExitCode = 0
  /\ err = "nil"
  /\ ctx = "live"
  /\ pc = "check"
  /\ attempt = NoAttempt
  /\ sleepLeft = 0
  /\ result = "none"
  /\ nFailed = 0
  /\ nDelays = 0
  /\ nStartTry = 0
  /\ fedCode = NoCode
  /\ fedOutput = NoOutput
  /\ cancelCalled = FALSE
  /\ newCall = NoCall
  /\ executor = NoExecutor
  /\ calls = <<>>
  /\ events = <<>>

(***************************************************************************)
(* The retry engine.                                                       *)
(***************************************************************************)
\* variant: the stop predicate's own context is not consulted
shouldContinue_NoCondCtx ==
  IF CtxErr(ctx) # "nil" THEN FALSE
  ELSE ~IsLimitReached(condition)

\* Retry.shouldContinue
shouldContinue ==
  IF CtxErr(ctx) # "nil" THEN FALSE
  ELSE CtxErr(GetCtx(condition)) = "nil" /\ ~IsLimitReached(condition)

\* variant: a composite nested in the composite is searched as well
checkCompositeForSuccess_Deep(comp) ==
  \E i \in 1..Len(comp.conditions) :
    \/ isSuccessCondition(comp.conditions[i]) /\ CondIsLimitReached(comp.conditions[i])
    \/ /\ comp.conditions[i].kind = "CompositeCondition"
       /\ \E j \in 1..Len(comp.conditions[i].conditions) :
            /\ isSuccessCondition(comp.conditions[i].conditions[j])
            /\ CondIsLimitReached(comp.conditions[i].conditions[j])

\* Retry.checkCompositeForSuccess
checkCompositeForSuccess(comp) ==
  \E i \in 1..Len(comp.conditions) :
    isSuccessCondition(comp.conditions[i]) /\ CondIsLimitReached(comp.conditions[i])

\* Retry.isSuccessConditionMet
isSuccessConditionMetOf(succ, cond) ==
  IF \E i \in 1..Len(succ) : CondIsLimitReached(succ[i]) THEN TRUE
  ELSE IF cond.composite THEN checkCompositeForSuccess(cond)
  ELSE isSuccessCondition(cond.conditions[1]) /\ CondIsLimitReached(cond.conditions[1])

isSuccessConditionMet == isSuccessConditionMetOf(successConditions, condition)

\* variant: the stop predicate's context is examined before the root context
getFinalError_CondFirst(e) ==
  IF CtxErr(GetCtx(condition)) # "nil" THEN CtxErr(GetCtx(condition))
  ELSE IF CtxErr(ctx) # "nil" THEN CtxErr(ctx)
  ELSE IF isSuccessConditionMet THEN "nil"
  ELSE IF IsLimitReached(condition) /\ e # "nil" THEN "ErrMaxTriesReached"
  ELSE e

\* variant: the root context is not examined
getFinalError_NoRoot(e) ==
  IF CtxErr(GetCtx(condition)) # "nil" THEN CtxErr(GetCtx(condition))
  ELSE IF isSuccessConditionMet THEN "nil"
  ELSE IF IsLimitReached(condition) /\ e # "nil" THEN "ErrMaxTriesReached"
  ELSE e

\* Retry.getFinalError
getFinalError(e) ==
  IF CtxErr(ctx) # "nil" THEN CtxErr(ctx)
  ELSE IF CtxErr(GetCtx(condition)) # "nil" THEN CtxErr(GetCtx(condition))
  ELSE IF isSuccessConditionMet THEN "nil"
  ELSE IF IsLimitReached(condition) /\ e # "nil" THEN "ErrMaxTriesReached"
  ELSE e

\* variant: only the process error decides the success of an attempt
success_ErrOnly(e) == e = "nil"

\* executeRetryLoop: success := err == nil || r.isSuccessConditionMet()
success(e) == e = "nil" \/ isSuccessConditionMet

\* parseCommand: the argument list, or ErrEmptyCommand when it is empty
parseCommand(c) == IF Len(c) = 0 THEN "ErrEmptyCommand" ELSE "nil"

\* the loop test of executeRetryLoop
Continue ==
  /\ UNCHANGED <<tvars, xvars>>
  /\ pc = "check"
  /\ pc' = IF shouldContinue /\ tries < MaxAttempts THEN "try" ELSE
           IF shouldContinue THEN "capped" ELSE "final"
  /\ UNCHANGED <<cmd, condition, successConditions, backoff, tries, lastExitCode,
                 err, ctx, attempt, sleepLeft, result, nFailed, nDelays>>

\* executeSingleTryWithLogger up to the launch of the process:
\* StartTry on the stop predicate and the success predicates, tries++,
\* parseCommand, exec.CommandContext(ctx, ...) and c.Start()
StartAttempt ==
  /\ UNCHANGED <<tvars, xvars>>
  /\ pc = "try"
  /\ condition' = StartTry(condition)
  /\ successConditions' =
       [i \in 1..Len(successConditions) |-> CondStartTry(successConditions[i])]
  /\ tries' = tries + 1
  /\ IF parseCommand(cmd) # "nil"
     THEN /\ attempt' = Attempt(parseFailure, "parse")
          /\ pc' = "feed"
     ELSE IF CtxErr(ctx) # "nil"
     THEN /\ attempt' = Attempt(startFailure, "start")
          /\ pc' = "feed"
     ELSE \/ /\ attempt' = Attempt(startFailure, "start")
             /\ pc' = "feed"
          \/ /\ attempt' = [NoAttempt EXCEPT !.how = "running"]
             /\ pc' = "running"
  /\ UNCHANGED <<cmd, backoff, lastExitCode, err, ctx, sleepLeft, result,
                 nFailed, nDelays>>

\* waitForCommandCompletion: the process exits by itself with a status, or
\* is ended by a signal sent from outside; there is no test of ctx, so this
\* also happens under a done context, when the process ends before the
\* kill reaches it
ProcessExit ==
  /\ UNCHANGED <<tvars, xvars>>
  /\ pc = "running"
  /\ \E out \in Stdouts, er \in Stderrs :
       \/ \E st \in ExitStatuses :
            attempt' = Attempt(waitResult(WaitExited(st), out, er), "exit")
       \/ \E sig \in ExitSignals :
            attempt' = Attempt(waitResult(SignalError(sig), out, er), "signal")
  /\ pc' = "feed"
  /\ UNCHANGED <<cmd, condition, successConditions, backoff, tries, lastExitCode,
                 err, ctx, sleepLeft, result, nFailed, nDelays>>

\* exec.CommandContext: the process is killed when the context it was
\* started with is done; c.Wait() returns the ExitError of the kill, and
\* the executor reports 128 + signal, or, for a process that had exited
\* with status 0 and was not reaped yet, ctx.Err(), and the executor
\* reports -1 with a "command failed" error
ProcessKilled ==
  /\ UNCHANGED <<tvars, xvars>>
  /\ pc = "running"
  /\ CtxErr(ctx) # "nil"
  /\ \E out \in Stdouts, er \in Stderrs,
        e \in {SignalError(SIGKILL), WaitCtxError} :
       attempt' = Attempt(waitResult(e, out, er), "kill")
  /\ pc' = "feed"
  /\ UNCHANGED <<cmd, condition, successConditions, backoff, tries, lastExitCode,
                 err, ctx, sleepLeft, result, nFailed, nDelays>>

\* the rest of executeSingleTryWithLogger: lastExitCode, the feeds, EndTry
FinishAttempt ==
  /\ UNCHANGED <<tvars, xvars>>
  /\ pc = "feed"
  /\ lastExitCode' = attempt.rc
  /\ condition' =
       EndTry(Feed(condition, attempt.rc, attempt.stdout, attempt.stderr))
  /\ successConditions' =
       [i \in 1..Len(successConditions) |->
          CondEndTry(CondFeed(successConditions[i], attempt.rc,
                              attempt.stdout, attempt.stderr))]
  /\ err' = attempt.err
  /\ nFailed' = IF attempt.err # "nil" THEN nFailed + 1 ELSE nFailed
  /\ pc' = "eval"
  /\ UNCHANGED <<cmd, backoff, tries, ctx, attempt, sleepLeft, result, nDelays>>

\* variant: the delay is keyed by the number of attempts already completed
\* before the current one
Evaluate_ZeroBased ==
  /\ UNCHANGED <<tvars, xvars>>
  /\ pc = "eval"
  /\ IF success(err)
     THEN /\ err' = IF isSuccessConditionMet THEN "nil" ELSE err
          /\ pc' = "final"
          /\ UNCHANGED <<sleepLeft, nDelays>>
     ELSE /\ err' = err
          /\ IF backoff.kind # "nil"
             THEN /\ nDelays' = nDelays + 1
                  /\ \E conv \in Conversions :
                       LET delay == NextDelay(backoff, tries - 1, conv)
                       IN sleepLeft' = IF delay > 0 THEN delay ELSE 0
             ELSE UNCHANGED <<sleepLeft, nDelays>>
          /\ pc' = IF sleepLeft' > 0 THEN "sleep" ELSE "check"
  /\ UNCHANGED <<cmd, condition, successConditions, backoff, tries, lastExitCode,
                 ctx, attempt, result, nFailed>>

\* executeRetryLoop after the attempt: break on success, else
\* performBackoffWithDelay
Evaluate ==
  /\ UNCHANGED <<tvars, xvars>>
  /\ pc = "eval"
  /\ IF success(err)
     THEN /\ err' = IF isSuccessConditionMet THEN "nil" ELSE err
          /\ pc' = "final"
          /\ UNCHANGED <<sleepLeft, nDelays>>
     ELSE /\ err' = err
          /\ IF backoff.kind # "nil"
             THEN /\ nDelays' = nDelays + 1
                  /\ \E conv \in Conversions :
                       LET delay == NextDelay(backoff, tries, conv)
                       IN sleepLeft' = IF delay > 0 THEN delay ELSE 0
             ELSE UNCHANGED <<sleepLeft, nDelays>>
          /\ pc' = IF sleepLeft' > 0 THEN "sleep" ELSE "check"
  /\ UNCHANGED <<cmd, condition, successConditions, backoff, tries, lastExitCode,
                 ctx, attempt, result, nFailed>>

\* time.Sleep(delay): one tick of the delay passes
Sleep ==
  /\ UNCHANGED <<tvars, xvars>>
  /\ pc = "sleep"
  /\ sleepLeft' = sleepLeft - 1
  /\ pc' = IF sleepLeft' = 0 THEN "check" ELSE "sleep"
  /\ UNCHANGED <<cmd, condition, successConditions, backoff, tries, lastExitCode,
                 err, ctx, attempt, result, nFailed, nDelays>>

\* RunWithEnhancedLogger returns getFinalError(ctx, err)
Return ==
  /\ UNCHANGED <<tvars, xvars>>
  /\ pc = "final"
  /\ result' = getFinalError(err)
  /\ pc' = "done"
  /\ UNCHANGED <<cmd, condition, successConditions, backoff, tries, lastExitCode,
                 err, ctx, attempt, sleepLeft, nFailed, nDelays>>

(***************************************************************************)
(* The environment: the caller, the clock and the monitoring goroutine.    *)
(***************************************************************************)
Running == pc \notin {"done", "capped"}

\* the caller cancels the root context, or its deadline passes
CancelRoot ==
  /\ UNCHANGED <<tvars, xvars>>
  /\ Running
  /\ ctx = "live"
  /\ ctx' \in {"Canceled", "DeadlineExceeded"}
  /\ UNCHANGED <<cmd, condition, successConditions, backoff, tries, lastExitCode,
                 err, pc, attempt, sleepLeft, result, nFailed, nDelays>>

\* the timer of context.WithTimeout of a sub-condition fires
DeadlineFires ==
  /\ UNCHANGED <<tvars, xvars>>
  /\ Running
  /\ \E i \in 1..Len(condition.conditions) :
       /\ condition.conditions[i].kind # "CompositeCondition"
       /\ condition.conditions[i].ctx = "live"
       /\ condition' = [condition EXCEPT !.conditions[i].ctx = "DeadlineExceeded"]
  /\ UNCHANGED <<cmd, successConditions, backoff, tries, lastExitCode, err, ctx,
                 pc, attempt, sleepLeft, result, nFailed, nDelays>>

\* time.Since(startTime) reaches the timeout of a StopOnTimeout
TimeElapses ==
  /\ UNCHANGED <<tvars, xvars>>
  /\ Running
  /\ \E i \in 1..Len(condition.conditions) :
       /\ condition.conditions[i].kind = "StopOnTimeout"
       /\ ~condition.conditions[i].elapsed
       /\ condition' = [condition EXCEPT !.conditions[i].elapsed = TRUE]
  /\ UNCHANGED <<cmd, successConditions, backoff, tries, lastExitCode, err, ctx,
                 pc, attempt, sleepLeft, result, nFailed, nDelays>>

\* variant: the goroutine exits without cancelling the composite's context
Monitor_NoCancel ==
  /\ UNCHANGED <<tvars, xvars>>
  /\ Running
  /\ condition.composite
  /\ \E g \in 1..Len(condition.monitors) :
       /\ condition.monitors[g] = "waiting"
       /\ \/ \E i \in timeoutCtxs(condition.conditions) :
               CtxErr(condition.conditions[i].ctx) # "nil"
          \/ CtxErr(condition.ctx) # "nil"
       /\ condition' = [condition EXCEPT !.monitors[g] = "exited"]
  /\ UNCHANGED <<cmd, successConditions, backoff, tries, lastExitCode, err, ctx,
                 pc, attempt, sleepLeft, result, nFailed, nDelays>>

\* the goroutine of createMergedContext: reflect.Select over the Done
\* channels of the sub-contexts and of the composite's own context
Monitor ==
  /\ UNCHANGED <<tvars, xvars>>
  /\ Running
  /\ condition.composite
  /\ \E g \in 1..Len(condition.monitors) :
       /\ condition.monitors[g] = "waiting"
       /\ \/ /\ \E i \in timeoutCtxs(condition.conditions) :
                  CtxErr(condition.conditions[i].ctx) # "nil"
             /\ condition' = [condition EXCEPT !.ctx = CancelCtx(@),
                                               !.monitors[g] = "exited"]
          \/ /\ CtxErr(condition.ctx) # "nil"
             /\ condition' = [condition EXCEPT !.monitors[g] = "exited"]
  /\ UNCHANGED <<cmd, successConditions, backoff, tries, lastExitCode, err, ctx,
                 pc, attempt, sleepLeft, result, nFailed, nDelays>>

Next ==
  \/ Continue
  \/ StartAttempt
  \/ ProcessExit
  \/ ProcessKilled
  \/ FinishAttempt
  \/ Evaluate
  \/ Sleep
  \/ Return
  \/ CancelRoot
  \/ DeadlineFires
  \/ TimeElapses
  \/ Monitor

Spec == Init /\ [][Next]_vars

TypeOK ==
  /\ tries \in 0..MaxAttempts
  /\ pc \in {"check", "try", "running", "feed", "eval", "sleep", "final", "done", "capped"}
  /\ sleepLeft \in 0..MaxDelay

(***************************************************************************)
(* A condition used directly, as a caller of the package (and its tests)   *)
(* does: the methods of ConditionRetryer, EnhancedConditionRetryer and     *)
(* Cancel are called in any order while the timers and the monitoring      *)
(* goroutine run.                                                          *)
(***************************************************************************)
ConditionLeaves ==
  StopLeaves \cup {NewRetryIfContains(Pat)[1], NewRetryRegex(Pat)[1],
                   NewStopOnExitCode({}), NewStopOnExitCode({1, 2})}

PairLeaves ==
  {NewStopOnMaxTries(1), NewStopOnTimeout, NewStopOnMaxExecTime,
   NewStopOnExitCode({2}), NewSuccessContains(Pat)[1]}

ConditionLists ==
  {<<>>}
  \cup {<<c>> : c \in ConditionLeaves}
  \cup {<<a, b>> : a \in PairLeaves, b \in PairLeaves}
  \cup {<<NewStopOnOutputContains(Pat)[1], NewStopOnOutputNotContains(Pat)[1]>>,
        <<NewStopOnTimeout, NewSuccessOnExitCode({1}), NewStopOnMaxTries(2)>>,
        <<NewStopOnMaxExecTime, NewStopOnTimeout, NewRetryOnExitCode({1})>>}

Conditions ==
  {Single(c) : c \in ConditionLeaves}
  \cup {NewCompositeCondition(l, cs) : l \in {"AND", "OR"}, cs \in ConditionLists}

\* the outputs given to SetLastOutput
Outputs ==
  {<<<<>>, <<>>>>, <<<<"a">>, <<"b">>>>, <<<<"a", "b">>, <<>>>>,
   <<<<"a">>, <<"(">>>>}

\* the constructors that take a pattern
PatternConstructors ==
  {"NewSuccessContains", "NewFailIfContains", "NewRetryIfContains",
   "NewStopOnOutputContains", "NewStopOnOutputNotContains", "NewRetryRegex",
   "NewSuccessRegex"}

\* the call of a constructor by its name
New(ctor, p) ==
  CASE ctor = "NewSuccessContains" -> NewSuccessContains(p)
    [] ctor = "NewFailIfContains" -> NewFailIfContains(p)
    [] ctor = "NewRetryIfContains" -> NewRetryIfContains(p)
    [] ctor = "NewStopOnOutputContains" -> NewStopOnOutputContains(p)
    [] ctor = "NewStopOnOutputNotContains" -> NewStopOnOutputNotContains(p)
    [] ctor = "NewRetryRegex" -> NewRetryRegex(p)
    [] ctor = "NewSuccessRegex" -> NewSuccessRegex(p)

\* condition, err := New...(pattern)
PatternCall(ctor, p) ==
  LET r == New(ctor, p)
  IN [cond |-> Single(r[1]),
      call |-> [ctor |-> ctor, pattern |-> p, err |-> r[2]]]

\* the conditions a caller makes, with the call that made them
Constructions ==
  {[cond |-> c, call |-> NoCall] : c \in Conditions}
  \cup {PatternCall(ctor, p) : ctor \in PatternConstructors, p \in Patterns}

ConditionInit ==
  /\ \E c \in Constructions :
       /\ condition = c.cond
       /\ newCall = c.call
  /\ executor = NoExecutor
  /\ calls = <<>>
  /\ events = <<>>
  /\ pc = "test"
  /\ cmd = <<>>
  /\ successConditions = <<>>
  /\ backoff = NoBackoff
  /\ tries = 0
  /\ lastExitCode = 0
  /\ err = "nil"
  /\ ctx = "live"
  /\ attempt = NoAttempt
  /\ sleepLeft = 0
  /\ result = "none"
  /\ nFailed = 0
  /\ nDelays = 0
  /\ nStartTry = 0
  /\ fedCode = NoCode
  /\ fedOutput = NoOutput
  /\ cancelCalled = FALSE

\* a call made on a predicate: for the calls of executeSingleTryWithLogger
\* on is 0 for the stop predicate and i for the i-th success predicate; for
\* the calls a composite forwards, on is the index of the sub-condition
Event(call, on) == [call |-> call, on |-> on]

\* variant: the predicates are visited from the last to the first
Notify_Reverse(call, n) == [i \in 1..n |-> Event(call, n + 1 - i)]

\* for _, c := range <list of n predicates> { c.<call>() }
Notify(call, n) == [i \in 1..n |-> Event(call, i)]

\* for _, c := range conds { if enhanced, ok := c.(EnhancedConditionRetryer);
\* ok { enhanced.<call>(...) } }, from the i-th sub-condition on
RECURSIVE NotifyEnhanced(_, _, _)
NotifyEnhanced(call, conds, i) ==
  IF i > Len(conds) THEN <<>>
  ELSE (IF conds[i].kind \in EnhancedKinds THEN <<Event(call, i)>> ELSE <<>>)
       \o NotifyEnhanced(call, conds, i + 1)

\* the condition implements EnhancedConditionRetryer
IsEnhanced(cond) ==
  IF cond.composite THEN TRUE ELSE cond.conditions[1].kind \in EnhancedKinds

\* the condition has a Cancel method
HasCancel(cond) ==
  IF cond.composite THEN TRUE ELSE cond.conditions[1].kind = "StopOnTimeout"

\* condition.StartTry()
CallStartTry ==
  /\ pc = "test"
  /\ newCall.err = "nil"
  /\ nStartTry < MaxAttempts
  /\ condition' = StartTry(condition)
  /\ nStartTry' = nStartTry + 1
  /\ UNCHANGED <<xvars, rvars, fedCode, fedOutput, cancelCalled, newCall>>

\* condition.EndTry()
CallEndTry ==
  /\ pc = "test"
  /\ newCall.err = "nil"
  /\ condition' = EndTry(condition)
  /\ UNCHANGED <<xvars, rvars, tvars>>

\* condition.SetLastExitCode(code), for a condition that has the method
CallSetLastExitCode ==
  /\ pc = "test"
  /\ newCall.err = "nil"
  /\ IsEnhanced(condition)
  /\ \E code \in ExitStatuses :
       /\ condition' = SetLastExitCode(condition, code)
       /\ fedCode' = code
  /\ UNCHANGED <<xvars, rvars, nStartTry, fedOutput, cancelCalled, newCall>>

\* condition.SetLastOutput(stdout, stderr), for a condition that has the method
CallSetLastOutput ==
  /\ pc = "test"
  /\ newCall.err = "nil"
  /\ IsEnhanced(condition)
  /\ \E o \in Outputs :
       /\ condition' = SetLastOutput(condition, o[1], o[2])
       /\ fedOutput' = o
  /\ UNCHANGED <<xvars, rvars, nStartTry, fedCode, cancelCalled, newCall>>

\* condition.Cancel(), for a condition that has the method
CallCancel ==
  /\ pc = "test"
  /\ newCall.err = "nil"
  /\ HasCancel(condition)
  /\ condition' = Cancel(condition)
  /\ cancelCalled' = TRUE
  /\ UNCHANGED <<xvars, rvars, nStartTry, fedCode, fedOutput, newCall>>

ConditionNext ==
  \/ CallStartTry
  \/ CallEndTry
  \/ CallSetLastExitCode
  \/ CallSetLastOutput
  \/ CallCancel
  \/ DeadlineFires
  \/ TimeElapses
  \/ Monitor

ConditionSpec == ConditionInit /\ [][ConditionNext]_vars

\* the Go scheduler runs every runnable goroutine eventually
ConditionFairSpec == ConditionSpec /\ WF_vars(Monitor)

(***************************************************************************)
(* A composite used directly, with the calls it forwards to its            *)
(* sub-conditions written down in the order its loops make them.           *)
(***************************************************************************)
FanOutInit ==
  /\ ConditionInit
  /\ condition.composite
  /\ Len(condition.conditions) >= 2

\* CompositeCondition.StartTry
FanOutStartTry ==
  /\ pc = "test"
  /\ nStartTry < MaxAttempts
  /\ condition' = StartTry(condition)
  /\ nStartTry' = nStartTry + 1
  /\ events' = Notify("StartTry", Len(condition.conditions))
  /\ UNCHANGED <<executor, calls, rvars, fedCode, fedOutput, cancelCalled,
                 newCall>>

\* CompositeCondition.EndTry
FanOutEndTry ==
  /\ pc = "test"
  /\ condition' = EndTry(condition)
  /\ events' = Notify("EndTry", Len(condition.conditions))
  /\ UNCHANGED <<executor, calls, rvars, tvars>>

\* CompositeCondition.SetLastExitCode
FanOutSetLastExitCode ==
  /\ pc = "test"
  /\ \E code \in ExitStatuses :
       /\ condition' = SetLastExitCode(condition, code)
       /\ fedCode' = code
  /\ events' = NotifyEnhanced("SetLastExitCode", condition.conditions, 1)
  /\ UNCHANGED <<executor, calls, rvars, nStartTry, fedOutput, cancelCalled,
                 newCall>>

\* CompositeCondition.SetLastOutput
FanOutSetLastOutput ==
  /\ pc = "test"
  /\ \E o \in Outputs :
       /\ condition' = SetLastOutput(condition, o[1], o[2])
       /\ fedOutput' = o
  /\ events' = NotifyEnhanced("SetLastOutput", condition.conditions, 1)
  /\ UNCHANGED <<executor, calls, rvars, nStartTry, fedCode, cancelCalled,
                 newCall>>

FanOutNext ==
  \/ FanOutStartTry
  \/ FanOutEndTry
  \/ FanOutSetLastExitCode
  \/ FanOutSetLastOutput

FanOutSpec == FanOutInit /\ [][FanOutNext]_vars

(***************************************************************************)
(* The process executor taken alone: one call of                           *)
(* execCommandWithOutputAndLogger, with the process, the two pipes and the *)
(* two copying goroutines as separate steps.  Stream 1 is stdout, stream 2 *)
(* is stderr.                                                              *)
(***************************************************************************)
Streams == {1, 2}

\* the engine is not running while the executor is looked at alone
NoRun ==
  /\ condition = NilCondition
  /\ successConditions = <<>>
  /\ tries = 0
  /\ lastExitCode = 0
  /\ err = "nil"
  /\ ctx = "live"
  /\ attempt = NoAttempt
  /\ sleepLeft = 0
  /\ result = "none"
  /\ nFailed = 0
  /\ nDelays = 0
  /\ nStartTry = 0
  /\ fedCode = NoCode
  /\ fedOutput = NoOutput
  /\ cancelCalled = FALSE
  /\ newCall = NoCall

\* the texts the process is going to write are chosen at the call
ExecutorInit ==
  /\ NoRun
  /\ cmd \in Commands
  /\ backoff = NoBackoff
  /\ calls = <<>>
  /\ events = <<>>
  /\ pc = "exec"
  /\ \E out \in Stdouts, er \in Stderrs :
       executor = [NoExecutor EXCEPT !.pc = "start", !.towrite = <<out, er>>]

\* execCommandWithOutputAndLogger up to c.Start(): parseCommand, then
\* setupCommandPipes and c.Start(); an empty command and a failed start
\* return at once, and c.Start() fails when the context is already done
CmdStart ==
  /\ executor.pc = "start"
  /\ IF parseCommand(cmd) # "nil"
     THEN executor' = [executor EXCEPT !.pc = "returned", !.result = parseFailure]
     ELSE IF CtxErr(ctx) # "nil"
     THEN executor' = [executor EXCEPT !.pc = "returned", !.werr = StartError,
                                       !.result = startFailure]
     ELSE \/ executor' = [executor EXCEPT !.pc = "returned", !.werr = StartError,
                                          !.result = startFailure]
          \/ executor' = [executor EXCEPT !.pc = "wait", !.process = "running"]
  /\ UNCHANGED <<condition, rvars, tvars, calls, events>>

\* the process writes the next character of a stream into its pipe
ProcessWrite ==
  /\ executor.process = "running"
  /\ \E k \in Streams :
       /\ executor.towrite[k] # <<>>
       /\ executor' =
            [executor EXCEPT !.towrite[k] = Tail(@),
                             !.written[k] = Append(@, Head(executor.towrite[k])),
                             !.pipe[k] = Append(@, Head(executor.towrite[k]))]
  /\ UNCHANGED <<condition, rvars, tvars, calls, events>>

\* the process terminates, by itself or by a signal, at any moment (the
\* Kill of exec.CommandContext once the context is done is one of the
\* signals); its ends of the pipes are closed
ProcessEnd ==
  /\ executor.process = "running"
  /\ \E e \in {WaitExited(st) : st \in ExitStatuses}
              \cup {SignalError(sig) : sig \in ExitSignals \cup {SIGKILL}} :
       executor' = [executor EXCEPT !.process = "exited", !.werr = e]
  /\ UNCHANGED <<condition, rvars, tvars, calls, events>>

\* one Read of io.Copy in a streaming goroutine: an error when the pipe has
\* been closed on the reader's side (the goroutine ends, wg.Done), else the
\* bytes available, else EOF once the process has terminated (wg.Done)
Copy ==
  /\ executor.pc \in {"wait", "barrier"}
  /\ executor.logger = NilLogger
  /\ \E k \in Streams :
       /\ ~executor.done[k]
       /\ IF executor.closed[k]
          THEN executor' = [executor EXCEPT !.done[k] = TRUE]
          ELSE IF executor.pipe[k] # <<>>
          THEN executor' = [executor EXCEPT !.buf[k] = @ \o executor.pipe[k],
                                            !.pipe[k] = <<>>]
          ELSE /\ executor.process = "exited"
               /\ executor' = [executor EXCEPT !.done[k] = TRUE]
  /\ UNCHANGED <<condition, rvars, tvars, calls, events>>

\* waitForCommandCompletion: c.Wait() returns once the process has
\* terminated, then stderr.Close() and stdout.Close()
CmdWait ==
  /\ executor.pc = "wait"
  /\ executor.process = "exited"
  /\ \E e \in CmdWaitErrors(executor.werr, ctx) :
       executor' = [executor EXCEPT !.pc = "barrier", !.werr = e,
                                    !.closed = <<TRUE, TRUE>>]
  /\ UNCHANGED <<condition, rvars, tvars, calls, events>>

\* waitForCommandCompletion: wg.Wait() and the result
WgWait ==
  /\ executor.pc = "barrier"
  /\ \A k \in Streams : executor.done[k]
  /\ executor' =
       [executor EXCEPT !.pc = "returned",
                        !.result = waitResult(executor.werr, executor.buf[1],
                                              executor.buf[2])]
  /\ UNCHANGED <<condition, rvars, tvars, calls, events>>

ExecutorNext ==
  \/ CmdStart
  \/ ProcessWrite
  \/ ProcessEnd
  \/ Copy
  \/ CmdWait
  \/ WgWait
  \/ CancelRoot

ExecutorSpec == ExecutorInit /\ [][ExecutorNext]_vars

(***************************************************************************)
(* The process executor with a logger attached: each streaming goroutine   *)
(* copies its pipe into its accumulator and into its own PrefixWriter,     *)
(* which cuts the text into lines and gives every non-empty line to        *)
(* LogCommandOutput of the one Logger.  The Logger has no lock, so the     *)
(* read and the assignment of Output in storeJSONOutput are separate steps *)
(* of each goroutine.                                                      *)
(***************************************************************************)
\* the texts of the two streams; the lines of stdout are made of "a" and
\* "c", those of stderr of "b"
LogStdouts == {<<"a", NL>>, <<"a", NL, "c">>, <<NL, "a", "c", NL>>}
LogStderrs == {<<"b", NL>>, <<"b">>}

\* the loggers the executor is called with: one in JSON mode before and
\* after StartAttempt, and one in another mode
Loggers ==
  {NewLogger("JSON"), Logger_StartAttempt(NewLogger("JSON")),
   Logger_StartAttempt(NewLogger("Normal"))}

LoggerInit ==
  /\ NoRun
  /\ cmd \in Commands
  /\ backoff = NoBackoff
  /\ calls = <<>>
  /\ events = <<>>
  /\ pc = "exec"
  /\ \E out \in LogStdouts, er \in LogStderrs, l \in Loggers :
       executor = [NoExecutor EXCEPT !.pc = "start", !.towrite = <<out, er>>,
                                     !.logger = l]

\* bytes.Buffer.ReadString('\n'): the place of the first line end in the
\* buffer, 0 when there is none (io.EOF)
ReadString(b) ==
  IF \E i \in 1..Len(b) : b[i] = NL
  THEN CHOOSE i \in 1..Len(b) : b[i] = NL /\ \A j \in 1..(i - 1) : b[j] # NL
  ELSE 0

\* where a goroutine goes on after LogCommandOutput has returned: the loop
\* of PrefixWriter.Write, or the end of Flush (buffer.Reset, wg.Done)
AfterLog(e, k) ==
  IF e.writer[k].flushing
  THEN [e EXCEPT !.writer[k].pc = "done", !.writer[k].buffer = <<>>,
                 !.writer[k].line = <<>>, !.writer[k].read = <<>>,
                 !.done[k] = TRUE]
  ELSE [e EXCEPT !.writer[k].pc = "write", !.writer[k].line = <<>>,
                 !.writer[k].read = <<>>]

\* one Read of io.Copy with a logger: the bytes read are written to the
\* accumulator and to the PrefixWriter (MultiWriter); a closed pipe or EOF
\* ends io.Copy and the goroutine goes on to Flush
LogCopy ==
  /\ executor.pc \in {"wait", "barrier"}
  /\ executor.logger # NilLogger
  /\ \E k \in Streams :
       /\ executor.writer[k].pc = "copy"
       /\ IF executor.closed[k]
          THEN executor' = [executor EXCEPT !.writer[k].pc = "flush"]
          ELSE IF executor.pipe[k] # <<>>
          THEN executor' =
                 [executor EXCEPT !.buf[k] = @ \o executor.pipe[k],
                                  !.writer[k].buffer = @ \o executor.pipe[k],
                                  !.writer[k].pc = "write",
                                  !.pipe[k] = <<>>]
          ELSE /\ executor.process = "exited"
               /\ executor' = [executor EXCEPT !.writer[k].pc = "flush"]
  /\ UNCHANGED <<condition, rvars, tvars, calls, events>>

\* one turn of the loop of PrefixWriter.Write: with no complete line the
\* partial line stays in the buffer and Write returns; else the line is
\* taken out, its line end trimmed, and a non-empty line is given to
\* LogCommandOutput
PrefixWriter_Write ==
  /\ \E k \in Streams :
       LET w == executor.writer[k]
           n == ReadString(w.buffer)
       IN /\ w.pc = "write"
          /\ IF n = 0
             THEN executor' = [executor EXCEPT !.writer[k].pc = "copy"]
             ELSE LET line == SubSeq(w.buffer, 1, n - 1)
                      rest == SubSeq(w.buffer, n + 1, Len(w.buffer))
                  IN IF line # <<>>
                     THEN executor' = [executor EXCEPT !.writer[k].buffer = rest,
                                                       !.writer[k].line = line,
                                                       !.writer[k].pc = "log"]
                     ELSE executor' = [executor EXCEPT !.writer[k].buffer = rest]
  /\ UNCHANGED <<condition, rvars, tvars, calls, events>>

\* PrefixWriter.Flush: what is left in the buffer is given to
\* LogCommandOutput; with nothing left the goroutine is done
PrefixWriter_Flush ==
  /\ \E k \in Streams :
       LET w == executor.writer[k]
       IN /\ w.pc = "flush"
          /\ IF w.buffer # <<>>
             THEN executor' = [executor EXCEPT !.writer[k].line = w.buffer,
                                               !.writer[k].flushing = TRUE,
                                               !.writer[k].pc = "log"]
             ELSE executor' = [executor EXCEPT !.writer[k].pc = "done",
                                               !.done[k] = TRUE]
  /\ UNCHANGED <<condition, rvars, tvars, calls, events>>

\* LogCommandOutput, storeJSONOutput up to the read of Output: nothing is
\* stored unless the mode is JSON and an attempt has been started
storeJSONOutput_Read ==
  /\ \E k \in Streams :
       /\ executor.writer[k].pc = "log"
       /\ IF executor.logger.mode # "JSON" \/ executor.logger.attempts = 0
          THEN executor' = AfterLog(executor, k)
          ELSE executor' = [executor EXCEPT !.writer[k].read = executor.logger.output,
                                            !.writer[k].pc = "assign"]
  /\ UNCHANGED <<condition, rvars, tvars, calls, events>>

\* storeJSONOutput, the assignment: the line alone when the Output read was
\* empty, else the Output read, a line end and the line
storeJSONOutput_Assign ==
  /\ \E k \in Streams :
       LET w == executor.writer[k]
       IN /\ w.pc = "assign"
          /\ executor' =
               AfterLog([executor EXCEPT !.logger.output =
                                           IF w.read = <<>> THEN w.line
                                           ELSE w.read \o <<NL>> \o w.line], k)
  /\ UNCHANGED <<condition, rvars, tvars, calls, events>>

LoggerNext ==
  \/ CmdStart
  \/ ProcessWrite
  \/ ProcessEnd
  \/ LogCopy
  \/ PrefixWriter_Write
  \/ PrefixWriter_Flush
  \/ storeJSONOutput_Read
  \/ storeJSONOutput_Assign
  \/ CmdWait
  \/ WgWait

LoggerSpec == LoggerInit /\ [][LoggerNext]_vars

(***************************************************************************)
(* A backoff strategy taken alone: NextDelay is called with any attempt    *)
(* index, as the tests of the package do.                                  *)
(***************************************************************************)
\* the strategies constructed, all with non-negative durations
Strategies ==
  {NewFixedBackoff(d) : d \in {0, 3}}
  \cup {NewLinearBackoff(b, inc, max) : b \in {0, 2}, inc \in {0, 1, 5}, max \in {0, 4}}
  \cup {NewExponentialBackoff(b, max, 2) : b \in {1, 2}, max \in {0, 5, MaxInt64}}
  \cup {NewFibonacciBackoff(b, max) : b \in {1, 3}, max \in {0, 4}}
  \cup {NewCustomBackoff(d) : d \in {<<>>, <<2>>, <<3, 1>>, <<1, 2, 4>>}}
  \cup {NewJitterBackoff(b, j) :
          b \in {NoBackoff, NewFixedBackoff(0), NewFixedBackoff(3),
                 NewFixedBackoff(4), NewFixedBackoff(2^MantissaBits + 3),
                 NewFixedBackoff(MaxInt64), NewLinearBackoff(2, 1, 5)},
          j \in -1..(JitterDen + 1)}

\* the attempt indexes given to NextDelay
CallAttempts == -1..MaxCallAttempt

BackoffInit ==
  /\ NoRun
  /\ cmd = <<>>
  /\ pc = "backoff"
  /\ backoff \in Strategies
  /\ executor = NoExecutor
  /\ calls = <<>>
  /\ events = <<>>

\* the last two elements of a sequence
LastTwo(q) == IF Len(q) <= 2 THEN q ELSE SubSeq(q, Len(q) - 1, Len(q))

\* delay := strategy.NextDelay(attempt), with the outcome conv of an
\* out-of-range conversion
CallNextDelay ==
  /\ pc = "backoff"
  /\ backoff.kind # "Jitter"
  /\ \E a \in CallAttempts, conv \in Conversions :
       /\ calls' = LastTwo(Append(calls, [attempt |-> a,
                                          delay |-> NextDelay(backoff, a, conv)]))
       /\ backoff' = AfterNextDelay(backoff, a)
  /\ UNCHANGED <<condition, cmd, successConditions, tries, lastExitCode, err,
                 ctx, pc, attempt, sleepLeft, result, nFailed, nDelays, tvars,
                 executor, events>>

\* delay := jitterBackoff.NextDelay(attempt), with the random draw n of
\* rand.Int or its failure randErr, and the outcome conv of an out-of-range
\* conversion; calls keeps the call made last
CallJitterNextDelay ==
  /\ pc = "backoff"
  /\ backoff.kind = "Jitter"
  /\ \E a \in CallAttempts, n \in 0..(RandMax - 1), randErr \in BOOLEAN,
        conv \in Conversions :
       /\ calls' = <<[attempt |-> a,
                      delay |-> JitterBackoff_NextDelay(backoff, a, n, randErr,
                                                        conv)]>>
       /\ backoff' = JitterBackoff_after(backoff, a)
  /\ UNCHANGED <<condition, cmd, successConditions, tries, lastExitCode, err,
                 ctx, pc, attempt, sleepLeft, result, nFailed, nDelays, tvars,
                 executor, events>>

BackoffNext == CallNextDelay \/ CallJitterNextDelay

BackoffSpec == BackoffInit /\ [][BackoffNext]_vars

(***************************************************************************)
(* The retry engine with executeSingleTryWithLogger taken statement by     *)
(* statement and the executor running as its own steps: the loop test, the *)
(* evaluation, the sleep and the return are those of the engine above.     *)
(***************************************************************************)
\* the two feed calls made on a predicate that is enhanced
FeedEvents(enhanced, on) ==
  IF enhanced
  THEN <<Event("SetLastExitCode", on), Event("SetLastOutput", on)>>
  ELSE <<>>

\* the feed loop over the success predicates i..n
RECURSIVE SuccessFeedEvents(_, _)
SuccessFeedEvents(succ, i) ==
  IF i > Len(succ) THEN <<>>
  ELSE FeedEvents(succ[i].kind \in EnhancedKinds, i)
       \o SuccessFeedEvents(succ, i + 1)

TryStops ==
  {Single(NewStopOnMaxTries(2)), Single(NewStopOnExitCode({2})),
   Single(NewStopOnMaxExecTime),
   NewCompositeCondition("OR", <<NewStopOnMaxTries(MaxN), NewSuccessContains(Pat)[1]>>)}

TrySuccessLists ==
  {<<>>, <<NewSuccessOnExitCode({1}), NewStopOnMaxTries(MaxN), NewSuccessContains(Pat)[1]>>}

TryInit ==
  /\ cmd \in Commands
  /\ condition \in TryStops
  /\ NewRetry(cmd, condition) = "nil"
  /\ successConditions \in TrySuccessLists
  /\ backoff \in {NoBackoff, NewLinearBackoff(0, 1, MaxDelay)}
  /\ tries = 0
  /\ lastExitCode = 0
  /\ err = "nil"
  /\ ctx = "live"
  /\ pc = "check"
  /\ attempt = NoAttempt
  /\ sleepLeft = 0
  /\ result = "none"
  /\ nFailed = 0
  /\ nDelays = 0
  /\ nStartTry = 0
  /\ fedCode = NoCode
  /\ fedOutput = NoOutput
  /\ cancelCalled = FALSE
  /\ newCall = NoCall
  /\ executor = NoExecutor
  /\ calls = <<>>
  /\ events = <<>>

\* r.condition.StartTry()
TryStartTry ==
  /\ pc = "try"
  /\ condition' = StartTry(condition)
  /\ events' = <<Event("StartTry", 0)>>
  /\ pc' = "successStartTry"
  /\ UNCHANGED <<cmd, successConditions, backoff, tries, lastExitCode, err, ctx,
                 attempt, sleepLeft, result, nFailed, nDelays, tvars, executor,
                 calls>>

\* the StartTry loop over the success predicates, r.tries++ and the call of
\* execCommandWithOutputAndLogger
TrySuccessStartTry ==
  /\ pc = "successStartTry"
  /\ successConditions' =
       [i \in 1..Len(successConditions) |-> CondStartTry(successConditions[i])]
  /\ tries' = tries + 1
  /\ events' = events \o Notify("StartTry", Len(successConditions))
                 \o <<Event("tries++", -1)>>
  /\ \E out \in Stdouts, er \in Stderrs :
       executor' = [NoExecutor EXCEPT !.pc = "start", !.towrite = <<out, er>>]
  /\ attempt' = [NoAttempt EXCEPT !.how = "running"]
  /\ pc' = "exec"
  /\ UNCHANGED <<cmd, condition, backoff, lastExitCode, err, ctx, sleepLeft,
                 result, nFailed, nDelays, tvars, calls>>

\* variant: the result is taken as soon as the process has terminated
TryExec_NoJoin ==
  /\ pc = "exec"
  /\ executor.process = "exited"
  /\ attempt' = Attempt(waitResult(executor.werr, executor.buf[1], executor.buf[2]),
                        "exit")
  /\ lastExitCode' = attempt'.rc
  /\ events' = Append(events, Event("exec", -1))
  /\ pc' = "feed1"
  /\ UNCHANGED <<cmd, condition, successConditions, backoff, tries, err, ctx,
                 sleepLeft, result, nFailed, nDelays, tvars, executor, calls>>

\* rc, stdout, stderr, err := execCommandWithOutputAndLogger(...) returns;
\* r.lastExitCode = rc
TryExec ==
  /\ pc = "exec"
  /\ executor.pc = "returned"
  /\ attempt' = Attempt(executor.result, "exit")
  /\ lastExitCode' = executor.result.rc
  /\ events' = Append(events, Event("exec", -1))
  /\ pc' = "feed1"
  /\ UNCHANGED <<cmd, condition, successConditions, backoff, tries, err, ctx,
                 sleepLeft, result, nFailed, nDelays, tvars, executor, calls>>

\* SetLastExitCode and SetLastOutput on the stop predicate, when enhanced
TryFeed ==
  /\ pc = "feed1"
  /\ condition' = Feed(condition, attempt.rc, attempt.stdout, attempt.stderr)
  /\ events' = events \o FeedEvents(IsEnhanced(condition), 0)
  /\ pc' = "successFeed"
  /\ UNCHANGED <<cmd, successConditions, backoff, tries, lastExitCode, err, ctx,
                 attempt, sleepLeft, result, nFailed, nDelays, tvars, executor,
                 calls>>

\* the feed loop over the success predicates
TrySuccessFeed ==
  /\ pc = "successFeed"
  /\ successConditions' =
       [i \in 1..Len(successConditions) |->
          CondFeed(successConditions[i], attempt.rc, attempt.stdout,
                   attempt.stderr)]
  /\ events' = events \o SuccessFeedEvents(successConditions, 1)
  /\ pc' = "endTry"
  /\ UNCHANGED <<cmd, condition, backoff, tries, lastExitCode, err, ctx, attempt,
                 sleepLeft, result, nFailed, nDelays, tvars, executor, calls>>

\* r.condition.EndTry()
TryEndTry ==
  /\ pc = "endTry"
  /\ condition' = EndTry(condition)
  /\ events' = Append(events, Event("EndTry", 0))
  /\ pc' = "successEndTry"
  /\ UNCHANGED <<cmd, successConditions, backoff, tries, lastExitCode, err, ctx,
                 attempt, sleepLeft, result, nFailed, nDelays, tvars, executor,
                 calls>>

\* the EndTry loop over the success predicates and return err
TrySuccessEndTry ==
  /\ pc = "successEndTry"
  /\ successConditions' =
       [i \in 1..Len(successConditions) |-> CondEndTry(successConditions[i])]
  /\ events' = events \o Notify("EndTry", Len(successConditions))
  /\ err' = attempt.err
  /\ nFailed' = IF attempt.err # "nil" THEN nFailed + 1 ELSE nFailed
  /\ pc' = "eval"
  /\ UNCHANGED <<cmd, condition, backoff, tries, lastExitCode, ctx, attempt,
                 sleepLeft, result, nDelays, tvars, executor, calls>>

TryNext ==
  \/ Continue
  \/ TryStartTry
  \/ TrySuccessStartTry
  \/ CmdStart
  \/ ProcessWrite
  \/ ProcessEnd
  \/ Copy
  \/ CmdWait
  \/ WgWait
  \/ TryExec
  \/ TryFeed
  \/ TrySuccessFeed
  \/ TryEndTry
  \/ TrySuccessEndTry
  \/ Evaluate
  \/ Sleep
  \/ Return
  \/ CancelRoot
  \/ DeadlineFires

TrySpec == TryInit /\ [][TryNext]_vars

(***************************************************************************)
(* Runs of the engine whose stop predicate is, or holds, a Success*        *)
(* predicate, with no dedicated success predicates.                        *)
(***************************************************************************)
SuccessStops ==
  {Single(NewSuccessOnExitCode({1})), Single(NewSuccessContains(Pat)[1]),
   Single(NewStopOnMaxTries(2)),
   NewCompositeCondition("OR", <<NewStopOnMaxTries(2), NewSuccessContains(Pat)[1]>>),
   NewCompositeCondition("OR", <<NewStopOnTimeout, NewSuccessOnExitCode({1})>>),
   NewCompositeCondition("OR",
     <<NewStopOnMaxTries(2), SubComposite("OR", <<NewSuccessContains(Pat)[1]>>)>>)}

SuccessStopInit ==
  /\ cmd \in Commands
  /\ condition \in SuccessStops
  /\ NewRetry(cmd, condition) = "nil"
  /\ successConditions = <<>>
  /\ backoff \in {NoBackoff, NewFixedBackoff(MaxDelay)}
  /\ tries = 0
  /\ lastExitCode = 0
  /\ err = "nil"
  /\ ctx = "live"
  /\ pc = "check"
  /\ attempt = NoAttempt
  /\ sleepLeft = 0
  /\ result = "none"
  /\ nFailed = 0
  /\ nDelays = 0
  /\ nStartTry = 0
  /\ fedCode = NoCode
  /\ fedOutput = NoOutput
  /\ cancelCalled = FALSE
  /\ newCall = NoCall
  /\ executor = NoExecutor
  /\ calls = <<>>
  /\ events = <<>>

SuccessStopSpec == SuccessStopInit /\ [][Next]_vars

(***************************************************************************)
(* Properties of the retry engine.                                         *)
(***************************************************************************)
\* some lifetime (root context or the stop predicate's context) is cancelled
AnyCtxErr == CtxErr(ctx) # "nil" \/ CtxErr(GetCtx(condition)) # "nil"

\* a predicate of the dedicated success list reports reached
SuccessListReached ==
  \E i \in 1..Len(successConditions) : successConditions[i].flag

\* the stop predicate is a plain StopOnMaxTries(n) with n >= 1
IsMaxTries ==
  /\ ~condition.composite
  /\ condition.conditions[1].kind = "StopOnMaxTries"
  /\ condition.conditions[1].maxTries >= 1

\* C1: with StopOnMaxTries(n), n >= 1, no success predicates, every attempt
\* failing and no lifetime cancelled, Run ends after exactly n attempts
\* (n StartTry calls, attempt counter n) and returns ErrMaxTriesReached,
\* whatever the backoff strategy.
C1_MaxTriesExhausted ==
  (/\ pc = "done"
   /\ IsMaxTries
   /\ successConditions = <<>>
   /\ nFailed = tries
   /\ ~AnyCtxErr)
  => /\ tries = condition.conditions[1].maxTries
     /\ condition.conditions[1].tries = condition.conditions[1].maxTries
     /\ result = "ErrMaxTriesReached"

C1_Witness ==
  /\ pc = "done"
  /\ IsMaxTries
  /\ condition.conditions[1].maxTries = MaxN
  /\ successConditions = <<>>
  /\ backoff.kind = "Linear"
  /\ nFailed = MaxN
  /\ tries = MaxN
  /\ ~AnyCtxErr
  /\ result = "ErrMaxTriesReached"

\* C2: once an attempt ends as a success (no process error, or a success
\* predicate reached) the loop breaks: no further attempt is started and no
\* backoff delay is applied after it.
C2_SuccessBreaksLoop ==
  [][/\ (pc = "eval" /\ (err = "nil" \/ isSuccessConditionMet))
          => /\ pc' \in {"eval", "final"}
             /\ tries' = tries
             /\ nDelays' = nDelays
             /\ sleepLeft' = 0
     /\ (pc \in {"final", "done"})
          => /\ pc' \in {"final", "done"}
             /\ tries' = tries
             /\ nDelays' = nDelays
             /\ sleepLeft' = sleepLeft]_vars

C2_Witness ==
  /\ pc = "done"
  /\ IsMaxTries
  /\ condition.conditions[1].maxTries = MaxN
  /\ backoff = NewFixedBackoff(MaxDelay)
  /\ tries = 2
  /\ nDelays = 1
  /\ attempt.err = "nil"
  /\ attempt.how = "exit"
  /\ result = "nil"

\* C3: the result of Run follows the strict priority (1) root context
\* cancelled -> its error, (2) stop predicate's context cancelled -> its
\* error, (3) a success predicate reached -> nil, (4) stop predicate reached
\* and last attempt errored -> ErrMaxTriesReached, (5) otherwise the last
\* attempt's own error, or nil.
C3_FinalErrorPriority ==
  pc = "done" =>
    IF CtxErr(ctx) # "nil" THEN result = CtxErr(ctx)
    ELSE IF CtxErr(GetCtx(condition)) # "nil"
         THEN result = CtxErr(GetCtx(condition))
    ELSE IF isSuccessConditionMet THEN result = "nil"
    ELSE IF IsLimitReached(condition) /\ attempt.err # "nil"
         THEN result = "ErrMaxTriesReached"
    ELSE result = attempt.err

C3_Witness ==
  /\ pc = "done"
  /\ CtxErr(ctx) = "Canceled"
  /\ CtxErr(GetCtx(condition)) = "DeadlineExceeded"
  /\ IsLimitReached(condition)
  /\ attempt.err = "ErrExit"
  /\ result = "Canceled"

\* C4: when a success predicate reports reached after an attempt whose
\* process returned an error, the error is discarded, the loop ends after
\* that attempt and Run returns nil unless a lifetime is cancelled; with
\* SuccessContains(p) and MaxTries(1), a command printing p and exiting
\* non-zero yields success after exactly 1 attempt.
C4_SuccessPredicateOverridesError ==
  /\ (SuccessListReached /\ attempt.err # "nil")
       => /\ pc \in {"eval", "final", "done"}
          /\ pc # "eval" => err = "nil"
          /\ (pc = "done" /\ ~AnyCtxErr) => result = "nil"
  /\ (/\ pc = "done"
      /\ IsMaxTries
      /\ condition.conditions[1].maxTries = 1
      /\ Len(successConditions) = 1
      /\ successConditions[1].kind = "SuccessContains"
      /\ attempt.how = "exit"
      /\ attempt.rc # 0
      /\ Contains(attempt.stdout \o attempt.stderr, successConditions[1].pattern)
      /\ CtxErr(ctx) = "nil")
       => /\ tries = 1
          /\ result = "nil"

C4_Witness ==
  /\ pc = "done"
  /\ IsMaxTries
  /\ condition.conditions[1].maxTries = 1
  /\ Len(successConditions) = 1
  /\ successConditions[1].kind = "SuccessContains"
  /\ successConditions[1].flag
  /\ attempt.rc = 1
  /\ attempt.err = "ErrExit"
  /\ attempt.stdout = <<"a">>
  /\ attempt.stderr = <<"b">>
  /\ tries = 1
  /\ result = "nil"

\* C5: an attempt is started only after a continue check at which the root
\* context is not cancelled, the stop predicate's context is not cancelled
\* and the stop predicate is not reached; when any of the three holds at a
\* continue check the loop ends and no attempt follows.
C5_ContinueCheck ==
  [][/\ (pc = "check" /\ pc' = "try")
          => /\ CtxErr(ctx) = "nil"
             /\ CtxErr(GetCtx(condition)) = "nil"
             /\ ~IsLimitReached(condition)
     /\ (/\ pc = "check"
         /\ \/ CtxErr(ctx) # "nil"
            \/ CtxErr(GetCtx(condition)) # "nil"
            \/ IsLimitReached(condition))
          => pc' \in {"check", "final"}
     /\ tries' # tries => pc = "try"
     /\ pc' = "try" => pc \in {"check", "try"}
     /\ pc = "final" => pc' \in {"final", "done"}]_vars

C5_Witness ==
  /\ pc = "final"
  /\ condition.composite
  /\ condition.logic = "AND"
  /\ CtxErr(condition.ctx) = "Canceled"
  /\ ~IsLimitReached(condition)
  /\ CtxErr(ctx) = "nil"
  /\ err # "nil"
  /\ tries = 1

\* C6: once the root context is cancelled no continue check passes any more,
\* and Run returns the root context's error, even when the stop predicate's
\* context has fired too, the stop predicate or a success predicate is
\* reached, or the last attempt succeeded.
C6_RootCancellationWins ==
  [][/\ (pc = "check" /\ CtxErr(ctx) # "nil") => pc' \in {"check", "final"}
     /\ (pc = "final" /\ pc' = "done" /\ CtxErr(ctx) # "nil")
          => result' = CtxErr(ctx)
     /\ (pc = "done" /\ CtxErr(ctx) # "nil") => result = CtxErr(ctx)]_vars

C6_Witness ==
  /\ pc = "done"
  /\ CtxErr(ctx) = "DeadlineExceeded"
  /\ CtxErr(GetCtx(condition)) = "Canceled"
  /\ attempt.err = "nil"
  /\ attempt.how = "exit"
  /\ SuccessListReached
  /\ result = "DeadlineExceeded"

\* the stop predicate is OR(Timeout(d), MaxTries(m))
IsTimeoutOrMaxTries ==
  /\ condition.composite
  /\ condition.logic = "OR"
  /\ Len(condition.conditions) = 2
  /\ condition.conditions[1].kind = "StopOnTimeout"
  /\ condition.conditions[2].kind = "StopOnMaxTries"

\* C7: with OR(Timeout(d), MaxTries(m)), when the Timeout's deadline fires
\* before m attempts have completed and the command has not succeeded, the
\* result of Run is a context error and not ErrMaxTriesReached, in every
\* interleaving of the monitoring goroutine with the loop.
C7_TimeoutBeatsMaxTries ==
  (/\ pc = "done"
   /\ Len(cmd) > 0
   /\ IsTimeoutOrMaxTries
   /\ condition.conditions[1].ctx = "DeadlineExceeded"
   /\ condition.conditions[2].tries < condition.conditions[2].maxTries
   /\ tries >= 1
   /\ nFailed = tries
   /\ ~SuccessListReached)
  => result \in {"Canceled", "DeadlineExceeded"}

\* C8: when the stop predicate's context or the root context fires while
\* the process of an attempt is running, the process is killed and does not
\* complete normally.
C8_ProcessBoundToLifetimes ==
  [][(pc = "running" /\ pc' = "feed" /\ AnyCtxErr) => attempt'.how = "kill"]_vars

\* C9: when the root context or the stop predicate's context is cancelled
\* while the loop sleeps between attempts, the loop leaves the sleep without
\* waiting for the remaining delay.
C9_SleepCooperatesWithCancellation ==
  [][(pc = "sleep" /\ AnyCtxErr) => ~(pc' = "sleep" /\ sleepLeft' < sleepLeft)]_vars

\* C10: a command line that parses to an empty argument list is never
\* attempted: no StartTry is delivered, the attempt counter stays 0 and the
\* caller receives ErrEmptyCommand rather than ErrMaxTriesReached.
C10_EmptyCommandNotAttempted ==
  Len(cmd) = 0 =>
    /\ tries = 0
    /\ \A i \in 1..Len(condition.conditions) : condition.conditions[i].tries = 0
    /\ pc = "done" => result = "ErrEmptyCommand"

\* the errors an attempt's executor returns
AttemptErrors ==
  {"ErrStart", "ErrExit", "ErrCommandTerminatedBySignal", "ErrEmptyCommand"}

\* the context errors
CtxErrors == {"Canceled", "DeadlineExceeded"}

\* neither the root context nor any context of the stop predicate has fired
NoLifetimeFired ==
  /\ ~AnyCtxErr
  /\ \A i \in 1..Len(condition.conditions) :
       CtxErr(condition.conditions[i].ctx) = "nil"

\* the error of an attempt is never what Run returns: a run whose last
\* attempt failed ends by a lifetime or by the stop predicate, and then the
\* result is a context error or ErrMaxTriesReached
RawErrorNeverReturned == pc = "done" => result \notin AttemptErrors

\* C11: the error returned by Run identifies the kind of the outcome: a
\* context error when a lifetime was cancelled and, when no lifetime was
\* cancelled and no success predicate is reached, the last attempt's own
\* error whenever that attempt could not start the command or the command
\* was terminated by a signal.
C11_OutcomeKindsSurfaced ==
  pc = "done" =>
    /\ result \in {"nil", "ErrMaxTriesReached"} \cup CtxErrors \cup AttemptErrors
    /\ AnyCtxErr => result \in CtxErrors
    /\ (/\ NoLifetimeFired
        /\ ~isSuccessConditionMet
        /\ attempt.how \in {"start", "signal"})
         => result = attempt.err

\* C12: a run ended by a deadline of the stop predicate returns an error
\* whose identity differs from the one of a run ended by the caller, who
\* cancels the root context and gets context.Canceled back.
C12_PolicyDeadlineDistinctFromCallerCancel ==
  (/\ pc = "done"
   /\ CtxErr(ctx) = "nil"
   /\ CtxErr(GetCtx(condition)) # "nil"
   /\ \E i \in 1..Len(condition.conditions) :
        condition.conditions[i].ctx = "DeadlineExceeded")
  => result # "Canceled"

(***************************************************************************)
(* Properties of the conditions used directly.                             *)
(***************************************************************************)
\* the sub-conditions of kind StopOnMaxTries of the condition under test
MaxTriesSubs ==
  {i \in 1..Len(condition.conditions) :
     condition.conditions[i].kind = "StopOnMaxTries"}

\* C13: after k StartTry calls on a fresh StopOnMaxTries(n), IsLimitReached
\* is false when k < n and true when k >= n for n >= 1, and false for any k
\* when n = 0; a call other than StartTry (EndTry, a feed, Cancel) never
\* changes the result.
C13_MaxTriesThreshold ==
  /\ [](\A i \in MaxTriesSubs :
          LET s == condition.conditions[i]
          IN CondIsLimitReached(s) = (s.maxTries >= 1 /\ nStartTry >= s.maxTries))
  /\ [][nStartTry' = nStartTry =>
          \A i \in MaxTriesSubs :
            CondIsLimitReached(condition.conditions[i])' =
              CondIsLimitReached(condition.conditions[i])]_vars

C13_Witness ==
  /\ pc = "test"
  /\ condition = [Single(NewStopOnMaxTries(MaxN)) EXCEPT
                    !.conditions[1].tries = MaxN + 1]
  /\ nStartTry = MaxN + 1
  /\ IsLimitReached(condition)

\* the sub-conditions of the composite that are not Success* variants
StopSubs ==
  {i \in 1..Len(condition.conditions) :
     condition.conditions[i].kind
       \notin {"SuccessOnExitCode", "SuccessContains", "SuccessRegex"}}

\* C14: IsLimitReached of a composite is the conjunction (AND) or the
\* disjunction (OR) of the reached values of its sub-conditions other than
\* the Success* variants, true for AND and false for OR when there is none;
\* it is the same for every order of the sub-conditions and for either
\* reached value of a Success* sub-condition.
C14_CompositeLogic ==
  condition.composite =>
    LET cs == condition.conditions
    IN /\ condition.logic = "AND" =>
            (IsLimitReached(condition)
               = \A i \in StopSubs : CondIsLimitReached(cs[i]))
       /\ condition.logic = "OR" =>
            (IsLimitReached(condition)
               = \E i \in StopSubs : CondIsLimitReached(cs[i]))
       /\ \A f \in Permutations(1..Len(cs)) :
            IsLimitReached([condition EXCEPT
                              !.conditions = [i \in 1..Len(cs) |-> cs[f[i]]]])
              = IsLimitReached(condition)
       /\ \A i \in (1..Len(cs)) \ StopSubs : \A b \in BOOLEAN :
            IsLimitReached([condition EXCEPT !.conditions[i].flag = b])
              = IsLimitReached(condition)

C14_Witness ==
  /\ pc = "test"
  /\ condition.composite
  /\ condition.logic = "AND"
  /\ Len(condition.conditions) = 2
  /\ condition.conditions[1].kind = "SuccessContains"
  /\ ~condition.conditions[1].flag
  /\ fedOutput = <<<<>>, <<>>>>
  /\ condition.conditions[2].kind = "StopOnMaxTries"
  /\ nStartTry = 1
  /\ IsLimitReached(condition)

\* C15: a composite of exactly one sub-condition c, AND or OR, reports
\* c's own reached value in every state, whatever c is.
C15_SingleConditionMirrors ==
  (condition.composite /\ Len(condition.conditions) = 1)
  => IsLimitReached(condition) = CondIsLimitReached(condition.conditions[1])

\* C15, amended: a composite of exactly one sub-condition c reports c's own
\* reached value when c is not a Success* variant; when c is a Success*
\* variant it is skipped, so AND is always reached and OR never is.
C15_SingleStopConditionMirrors ==
  (condition.composite /\ Len(condition.conditions) = 1)
  => IF 1 \in StopSubs
     THEN IsLimitReached(condition) = CondIsLimitReached(condition.conditions[1])
     ELSE IsLimitReached(condition) = (condition.logic = "AND")

C15_Witness ==
  /\ pc = "test"
  /\ condition.composite
  /\ Len(condition.conditions) = 1
  /\ condition.logic = "OR"
  /\ condition.conditions[1].kind = "SuccessContains"
  /\ fedOutput = <<<<"a">>, <<"b">>>>
  /\ CondIsLimitReached(condition.conditions[1])
  /\ ~IsLimitReached(condition)

\* the context of some monitored sub-condition of the composite has fired
SubLifetimeFired ==
  \E i \in timeoutCtxs(condition.conditions) :
    CtxErr(condition.conditions[i].ctx) # "nil"

\* C16: when the context of a sub-condition that is not the background
\* context fires, the composite's context is eventually cancelled (the
\* monitoring goroutine being scheduled fairly); the composite's context is
\* cancelled only after such a firing or a call of Cancel(); and a step of
\* the monitoring goroutine changes no sub-condition's context.
C16_CancellationMerge ==
  /\ (condition.composite /\ SubLifetimeFired)
       ~> (CtxErr(condition.ctx) # "nil")
  /\ []((condition.composite /\ CtxErr(condition.ctx) # "nil")
          => (SubLifetimeFired \/ cancelCalled))
  /\ [][condition'.monitors # condition.monitors =>
          \A i \in 1..Len(condition.conditions) :
            condition'.conditions[i].ctx = condition.conditions[i].ctx]_vars

C16_Witness ==
  /\ pc = "test"
  /\ condition.composite
  /\ Len(condition.conditions) = 2
  /\ condition.conditions[1].kind = "StopOnMaxTries"
  /\ condition.conditions[2].kind = "StopOnTimeout"
  /\ condition.conditions[2].ctx = "DeadlineExceeded"
  /\ ~cancelCalled
  /\ condition.monitors = <<"exited">>
  /\ condition.ctx = "Canceled"

\* C17: a composite has at most one monitoring goroutine at any time,
\* whatever the number of sub-conditions, and none when every sub-condition
\* has the background context; once a monitored sub-context has fired or
\* Cancel() has been called, the goroutine eventually exits and none remains.
C17_SingleMonitor ==
  /\ [](condition.composite =>
          /\ Len(condition.monitors) <= 1
          /\ timeoutCtxs(condition.conditions) = {} => condition.monitors = <<>>)
  /\ (condition.composite /\ (SubLifetimeFired \/ cancelCalled))
       ~> (\A g \in 1..Len(condition.monitors) : condition.monitors[g] = "exited")

C17_Witness ==
  /\ pc = "test"
  /\ condition.composite
  /\ Len(condition.conditions) = 2
  /\ condition.conditions[1].kind = "StopOnMaxExecutionTime"
  /\ condition.conditions[2].kind = "StopOnMaxExecutionTime"
  /\ ~SubLifetimeFired
  /\ cancelCalled
  /\ condition.monitors = <<"exited">>

\* C18: after Cancel() on a composite, the composite's own context and the
\* context of every sub-condition that owns a cancellable one (StopOnTimeout,
\* StopOnMaxExecutionTime) are cancelled.
C18_CancelIsTransitive ==
  (condition.composite /\ cancelCalled)
  => /\ CtxErr(condition.ctx) # "nil"
     /\ \A i \in timeoutCtxs(condition.conditions) :
          CtxErr(condition.conditions[i].ctx) # "nil"

(***************************************************************************)
(* Further properties of the retry engine.                                 *)
(***************************************************************************)
\* C19: with FailIfContains(p) as the stop predicate, an attempt whose
\* stdout+stderr contains p makes the predicate reached and ends the run
\* with a failure: Run returns a non-nil error whatever the exit code of
\* the process.
C19_FailIfContainsIsFailure ==
  (/\ pc = "done"
   /\ ~condition.composite
   /\ condition.conditions[1].kind = "FailIfContains"
   /\ successConditions = <<>>
   /\ attempt.how = "exit"
   /\ Contains(attempt.stdout \o attempt.stderr, condition.conditions[1].pattern))
  => /\ IsLimitReached(condition)
     /\ result # "nil"

(***************************************************************************)
(* Further properties of the conditions used directly.                     *)
(***************************************************************************)
\* C20: a retry-gating predicate is not reached before any feed; after a
\* feed, RetryOnExitCode is reached exactly when the last exit code given
\* is not in its set, RetryIfContains and RetryRegex exactly when the last
\* stdout+stderr given does not match the pattern, whatever was given
\* before.
C20_RetryGatesInverted ==
  \A i \in 1..Len(condition.conditions) :
    LET r == condition.conditions[i]
    IN /\ r.kind = "RetryOnExitCode" =>
            (CondIsLimitReached(r) = (fedCode # NoCode /\ fedCode \notin r.codes))
       /\ r.kind \in {"RetryIfContains", "RetryRegex"} =>
            (CondIsLimitReached(r)
               = (/\ fedOutput # NoOutput
                  /\ ~Matches(r.pattern, fedOutput[1] \o fedOutput[2])))

C20_Witness ==
  /\ pc = "test"
  /\ ~condition.composite
  /\ condition.conditions[1].kind = "RetryIfContains"
  /\ fedCode = 1
  /\ fedOutput = <<<<>>, <<>>>>
  /\ nStartTry = 2
  /\ IsLimitReached(condition)

\* C21: StopOnExitCode is not reached before any feed; after any sequence of
\* SetLastExitCode calls it is reached exactly when the exit code given last
\* is in its set, so a later code outside the set takes it back to not
\* reached, and with an empty set it is never reached.
C21_StopOnExitCodeLastFeedWins ==
  /\ [](\A i \in 1..Len(condition.conditions) :
          LET s == condition.conditions[i]
          IN s.kind = "StopOnExitCode" =>
               (CondIsLimitReached(s) = (fedCode # NoCode /\ fedCode \in s.codes)))
  /\ [][\A i \in 1..Len(condition.conditions) :
          LET s == condition.conditions[i]
          IN (/\ s.kind = "StopOnExitCode"
              /\ CondIsLimitReached(s)
              /\ fedCode' \notin s.codes)
             => ~CondIsLimitReached(condition'.conditions[i])]_vars

\* the predicate with set {1, 2} was given a code of the set, then code 0
C21_Witness ==
  /\ pc = "test"
  /\ ~condition.composite
  /\ condition.conditions[1].kind = "StopOnExitCode"
  /\ condition.conditions[1].codes = {1, 2}
  /\ fedCode = 0
  /\ ~IsLimitReached(condition)

\* C22: StopOnOutputPattern, in its contains and its not-contains variant, is
\* not reached before any output is given; after each SetLastOutput it is
\* reached exactly when "the pattern matches stdout+stderr" equals its
\* contains flag, for the output given last only; the empty pattern matches
\* every output.
C22_OutputPatternLastFeedWins ==
  \A i \in 1..Len(condition.conditions) :
    LET s == condition.conditions[i]
        combined == fedOutput[1] \o fedOutput[2]
    IN s.kind = "StopOnOutputPattern" =>
         /\ fedOutput = NoOutput => ~CondIsLimitReached(s)
         /\ fedOutput # NoOutput =>
              /\ CondIsLimitReached(s) = (Matches(s.pattern, combined) = s.contains)
              /\ s.pattern = <<>> => (CondIsLimitReached(s) = s.contains)

\* both variants in one composite, given an output that matches and then one
\* that does not: the not-contains variant is reached, the other is not
C22_Witness ==
  /\ pc = "test"
  /\ condition.composite
  /\ Len(condition.conditions) = 2
  /\ condition.conditions[1].kind = "StopOnOutputPattern"
  /\ condition.conditions[1].contains
  /\ ~condition.conditions[2].contains
  /\ fedOutput = <<<<"a">>, <<"(">>>>
  /\ ~CondIsLimitReached(condition.conditions[1])
  /\ CondIsLimitReached(condition.conditions[2])

\* the constructors that ignore the error of regexp.Compile
LenientConstructors ==
  {"NewStopOnOutputContains", "NewStopOnOutputNotContains",
   "NewSuccessContains", "NewRetryIfContains", "NewFailIfContains"}

\* C23: NewSuccessRegex and NewRetryRegex given a pattern that does not
\* compile return an error and no predicate; the Contains-style constructors
\* never return an error and, for such a pattern, the predicate they return
\* matches it as a literal substring of stdout+stderr.
C23_StrictVsLenientValidation ==
  LET made == condition.conditions[1]
      literal == Contains(fedOutput[1] \o fedOutput[2], newCall.pattern)
  IN /\ (/\ newCall.ctor \in {"NewSuccessRegex", "NewRetryRegex"}
          /\ ~Compiles(newCall.pattern))
         => (newCall.err # "nil" /\ made = NilCond)
     /\ newCall.ctor \in LenientConstructors =>
          /\ newCall.err = "nil"
          /\ made # NilCond
          /\ made.pattern = newCall.pattern
          /\ (~Compiles(newCall.pattern) /\ fedOutput # NoOutput) =>
               (CondIsLimitReached(made)
                  = IF newCall.ctor \in {"NewStopOnOutputNotContains",
                                         "NewRetryIfContains"}
                    THEN ~literal ELSE literal)

\* NewSuccessContains("(") made a predicate, which an output that contains
\* "(" has made reached
C23_Witness ==
  /\ pc = "test"
  /\ newCall.ctor = "NewSuccessContains"
  /\ ~Compiles(newCall.pattern)
  /\ newCall.err = "nil"
  /\ fedOutput = <<<<"a">>, <<"(">>>>
  /\ IsLimitReached(condition)

\* NewRetryRegex("(") returned an error
C23_StrictWitness ==
  /\ newCall.ctor = "NewRetryRegex"
  /\ ~Compiles(newCall.pattern)
  /\ newCall.err # "nil"

(***************************************************************************)
(* Properties of the process executor.                                     *)
(***************************************************************************)
\* C24: no trailing output is lost: whatever the interleaving of the exit
\* of the process, the closing of the pipes and the two streaming
\* goroutines, the stdout and stderr returned by the executor are all the
\* characters the process wrote to each stream before it terminated.
C24_NoTrailingOutputLost ==
  (executor.pc = "returned" /\ executor.process = "exited")
  => /\ executor.result.stdout = executor.written[1]
     /\ executor.result.stderr = executor.written[2]

\* C25: the exit code of one attempt: 0 with a nil error when the process
\* exited with status 0; its exit status with a "command failed" error when
\* it exited with another status; -1 when it could not be started; and when
\* it was ended by signal s, 128 + s with ErrCommandTerminatedBySignal, an
\* error other than that of a non-zero exit.
C25_ExitCodeDerivation ==
  LET e == executor.werr
      r == executor.result
  IN executor.pc = "returned" =>
       /\ executor.process = "none" => (r.rc = -1 /\ r.err # "nil")
       /\ (executor.process = "exited" /\ e.type = "nil") =>
            (r.rc = 0 /\ r.err = "nil")
       /\ (executor.process = "exited" /\ e.type = "ExitError" /\ ~e.signaled) =>
            (r.rc = e.status /\ r.rc # 0 /\ r.err = "ErrExit")
       /\ (executor.process = "exited" /\ e.type = "ExitError" /\ e.signaled) =>
            /\ r.rc = signalExitCodeBase + e.signal
            /\ r.err = "ErrCommandTerminatedBySignal"
            /\ r.err # "ErrExit"

\* the executor returned for a process ended by SIGTERM
C25_Witness ==
  /\ executor.pc = "returned"
  /\ executor.process = "exited"
  /\ executor.werr = SignalError(SIGTERM)
  /\ executor.result.rc = 143

(***************************************************************************)
(* Properties of the backoff strategies.                                   *)
(***************************************************************************)
\* the Fibonacci numbers 1, 1, 2, 3, 5, ...
RECURSIVE Fib(_)
Fib(k) == IF k <= 2 THEN 1 ELSE Fib(k - 1) + Fib(k - 2)

\* the delay of Linear, Exponential and Fibonacci backoff without a cap
Uncapped(b, a) ==
  CASE b.kind = "Linear" -> b.base + (a - 1) * b.increment
    [] b.kind = "Exponential" -> b.base * Pow(b.multiplier, a - 1)
    [] b.kind = "Fibonacci" -> b.base * Fib(a)

GrowingKinds == {"Linear", "Exponential", "Fibonacci"}

\* C26: for Linear, Exponential and Fibonacci backoff and every attempt >= 1,
\* with a maximum set (max > 0) the delay never exceeds max, and with no
\* maximum (max = 0) the delay is the uncapped formula of the strategy
\* (here whenever that value is in the range of a duration).
C26_BackoffCap ==
  backoff.kind \in GrowingKinds =>
    \A i \in 1..Len(calls) :
      LET c == calls[i]
      IN c.attempt >= 1 =>
           /\ backoff.max > 0 => c.delay <= backoff.max
           /\ (backoff.max = 0 /\ Uncapped(backoff, c.attempt) <= MaxInt64) =>
                c.delay = Uncapped(backoff, c.attempt)

\* C27: Exponential, Linear and Fibonacci delays are non-decreasing in the
\* attempt index: for attempts 1 <= a < b, NextDelay(a) <= NextDelay(b), and
\* once the cap has been returned every later attempt returns the cap.
C27_DelaysNonDecreasing ==
  (backoff.kind \in GrowingKinds /\ Len(calls) = 2) =>
    LET a == calls[1]
        b == calls[2]
    IN (1 <= a.attempt /\ a.attempt < b.attempt) =>
         /\ a.delay <= b.delay
         /\ (backoff.max > 0 /\ a.delay = backoff.max) => b.delay = backoff.max

\* C28: every strategy, constructed with non-negative durations, returns a
\* non-negative delay for every attempt index, also for the indexes where
\* base * fib[attempt-1] or base + (attempt-1) * increment is beyond the
\* range of a duration.
C28_DelayNonNegative ==
  \A i \in 1..Len(calls) : calls[i].delay >= 0

\* C29: Custom backoff returns delays[attempt-1] for 1 <= attempt <=
\* len(delays); for every attempt beyond the list it returns what it returns
\* for attempt len(delays), the last element; for attempt <= 0 or an empty
\* list it returns zero.
C29_CustomBackoffList ==
  backoff.kind = "Custom" =>
    LET len == Len(backoff.delays)
    IN /\ \A i \in 1..Len(calls) :
            LET c == calls[i]
            IN /\ (c.attempt <= 0 \/ len = 0) => c.delay = 0
               /\ (1 <= c.attempt /\ c.attempt <= len) =>
                    c.delay = backoff.delays[c.attempt]
               /\ (len > 0 /\ c.attempt > len) => c.delay = backoff.delays[len]
       /\ (/\ Len(calls) = 2
           /\ len > 0
           /\ calls[1].attempt = len
           /\ calls[2].attempt > len) => calls[2].delay = calls[1].delay

\* the two-element list <<3, 1>> asked for attempt 2, then for an attempt
\* beyond the list
C29_Witness ==
  /\ backoff.kind = "Custom"
  /\ backoff.delays = <<3, 1>>
  /\ Len(calls) = 2
  /\ calls[1].attempt = 2
  /\ calls[2].attempt = MaxCallAttempt
  /\ calls[2].delay = 1

\* the delay of the wrapped strategy of a JitterBackoff
WrappedDelay(j, a, conv) ==
  IF j.strategy.kind = "nil" THEN 0 ELSE NextDelay(j.strategy, a, conv)

\* C30 as stated: pct is clamped into [0, 1]; for the wrapped delay b the
\* result lies in [max(0, b - pct*b), b + pct*b] for every random draw; with
\* pct = 0 it is exactly b, with pct = 1 it lies in [0, 2*b]; a nil wrapped
\* strategy or b = 0 yields 0.
C30_JitterBounds ==
  backoff.kind = "Jitter" =>
    /\ backoff.jitter \in 0..JitterDen
    /\ \A i \in 1..Len(calls), conv \in Conversions :
         LET c == calls[i]
             b == WrappedDelay(backoff, c.attempt, conv)
             k == backoff.jitter
             low == IF b * JitterDen - k * b < 0 THEN 0 ELSE b * JitterDen - k * b
         IN /\ low <= c.delay * JitterDen
            /\ c.delay * JitterDen <= b * JitterDen + k * b
            /\ k = 0 => c.delay = b
            /\ k = JitterDen => (0 <= c.delay /\ c.delay <= 2 * b)
            /\ (backoff.strategy.kind = "nil" \/ b = 0) => c.delay = 0

(***************************************************************************)
(* Properties of one attempt taken statement by statement.                 *)
(***************************************************************************)
\* the place of a call in the order of one attempt: the phase first, then
\* the predicate (stop predicate before the success predicates, these in list
\* order), then exit code before output
EventRank(e) ==
  (CASE e.call = "StartTry" -> 100
     [] e.call = "tries++" -> 200
     [] e.call = "exec" -> 300
     [] e.call \in {"SetLastExitCode", "SetLastOutput"} -> 400
     [] e.call = "EndTry" -> 500)
  + 2 * e.on + (IF e.call = "SetLastOutput" THEN 1 ELSE 0)

\* the calls one full attempt makes
AttemptCalls ==
  {Event(c, i) : c \in {"StartTry", "EndTry"}, i \in 0..Len(successConditions)}
  \cup {Event("tries++", -1), Event("exec", -1)}
  \cup {Event(c, 0) : c \in IF IsEnhanced(condition)
                             THEN {"SetLastExitCode", "SetLastOutput"} ELSE {}}
  \cup {Event(c, i) : c \in {"SetLastExitCode", "SetLastOutput"},
                      i \in {k \in 1..Len(successConditions) :
                               successConditions[k].kind \in EnhancedKinds}}

\* the control thread is inside executeSingleTryWithLogger
InsideTry ==
  pc \in {"successStartTry", "exec", "feed1", "successFeed", "endTry",
          "successEndTry"}

\* C31: within an attempt the calls are made in the fixed order StartTry
\* (stop predicate, then the success predicates in list order), tries++, the
\* process, the feeds of exit code and output (stop predicate if enhanced,
\* then each enhanced success predicate in list order), EndTry (stop
\* predicate, then the success predicates in list order); each call is made
\* once, the process runs only after tries++ and before any feed, and a
\* completed attempt has made exactly these calls
C31_NotificationOrder ==
  /\ \A i, j \in 1..Len(events) :
       i < j => EventRank(events[i]) < EventRank(events[j])
  /\ {events[i] : i \in 1..Len(events)} \subseteq AttemptCalls
  /\ (tries > 0 /\ ~InsideTry /\ pc # "try")
       => {events[i] : i \in 1..Len(events)} = AttemptCalls
  /\ (pc = "exec" /\ executor.pc # "returned")
       => /\ tries > 0
          /\ {events[i] : i \in 1..Len(events)} =
               {Event("StartTry", i) : i \in 0..Len(successConditions)}
               \cup {Event("tries++", -1)}
  /\ (\E i \in 1..Len(events) : EventRank(events[i]) >= 300)
       => executor.pc = "returned"

\* the second attempt of a run with an enhanced stop predicate and three
\* success predicates, one of them not enhanced, has made its twelve
\* notifications and four more calls
C31_Witness ==
  /\ pc = "eval"
  /\ tries = 2
  /\ Len(successConditions) = 3
  /\ IsEnhanced(condition)
  /\ Len(events) = 16
  /\ events[16] = Event("EndTry", 3)

\* the streaming goroutine of stream k has been started and has not ended
TaskRunning(k) == executor.pc \in {"wait", "barrier"} /\ ~executor.done[k]

\* C32: the process and its two streaming goroutines live only while the
\* control thread is inside the call of the executor: when the result is
\* returned both goroutines of a started process have ended, so the feeds,
\* EndTry, the backoff and the start of the next attempt find no process and
\* no goroutine left, and a step of a goroutine leaves the predicates alone
C32_NoAttemptLevelConcurrency ==
  /\ [](/\ pc # "exec"
             => executor.process # "running" /\ \A k \in Streams : ~TaskRunning(k)
        /\ (executor.pc = "returned" /\ executor.process # "none")
             => executor.process = "exited" /\ \A k \in Streams : executor.done[k]
        /\ executor.process = "running" => executor.pc = "wait")
  /\ [][(executor'.pc = executor.pc
          /\ (executor'.buf # executor.buf \/ executor'.done # executor.done))
          => UNCHANGED <<condition, successConditions>>]_vars

\* the second process of a run has terminated, both goroutines have joined
\* and its result is being fed
C32_Witness ==
  /\ pc = "feed1"
  /\ tries = 2
  /\ executor.process = "exited"
  /\ \A k \in Streams : executor.done[k]
  /\ executor.buf[1] # <<>>

\* the delay performBackoffWithDelay sleeps after attempt number k
BackoffDelay(k, conv) ==
  IF backoff.kind = "nil" THEN 0
  ELSE IF NextDelay(backoff, k, conv) > 0 THEN NextDelay(backoff, k, conv) ELSE 0

\* C33: after an attempt that is not a success, also when the stop predicate
\* has become reached, the loop asks the strategy once for NextDelay(tries)
\* and sleeps that long, all of it, before the next loop test; it does not
\* sleep without a strategy or for a delay <= 0; after a success it asks for
\* no delay; so the delays asked for are as many as the failed attempts, or
\* one less while the last failed attempt is being evaluated
C33_BackoffAfterEveryFailure ==
  /\ [][/\ (pc = "eval" /\ pc' # "eval" /\ ~success(err))
             => /\ nDelays' = nDelays + (IF backoff.kind = "nil" THEN 0 ELSE 1)
                /\ \E conv \in Conversions :
                     /\ sleepLeft' = BackoffDelay(tries, conv)
                     /\ pc' = IF BackoffDelay(tries, conv) > 0 THEN "sleep"
                              ELSE "check"
        /\ (pc = "eval" /\ pc' # "eval" /\ success(err))
             => nDelays' = nDelays /\ pc' = "final"
        /\ (pc = "sleep" /\ (pc' # "sleep" \/ sleepLeft' # sleepLeft))
             => /\ sleepLeft' = sleepLeft - 1
                /\ pc' = IF sleepLeft' = 0 THEN "check" ELSE "sleep"
        /\ pc # "eval" => nDelays' = nDelays]_vars
  /\ [](backoff.kind # "nil"
          => /\ nDelays <= nFailed
             /\ nFailed <= nDelays + 1
             /\ pc \in {"sleep", "check", "try"} => nDelays = nFailed)

\* the stop predicate has become reached with the second failed attempt, and
\* the loop sleeps NextDelay(2) all the same
C33_Witness ==
  /\ pc = "sleep"
  /\ tries = 2
  /\ nFailed = 2
  /\ nDelays = 2
  /\ \E conv \in Conversions : sleepLeft = NextDelay(backoff, 2, conv)
  /\ IsLimitReached(condition)

(***************************************************************************)
(* Properties of a run between the end of an attempt and the next loop     *)
(* test, and of the value Run returns.                                     *)
(***************************************************************************)
\* C34: once the feeds of an attempt are made, the value of IsLimitReached
\* of the stop predicate is not changed by EndTry, nor while the loop
\* evaluates the attempt and sleeps, until the next loop test
C34_ReachedStableUntilNextCheck ==
  [][/\ (pc = "feed" /\ pc' = "eval")
          => IsLimitReached(condition)' =
               IsLimitReached(Feed(condition, attempt.rc, attempt.stdout,
                                   attempt.stderr))
     /\ pc \in {"eval", "sleep"}
          => IsLimitReached(condition)' = IsLimitReached(condition)]_vars

\* the stop predicate is a StopOnMaxExecutionTime alone
IsMaxExecTime ==
  ~condition.composite /\ condition.conditions[1].kind = "StopOnMaxExecutionTime"

\* C36: with StopOnMaxExecutionTime as the stop predicate, once the first
\* attempt has ended the predicate reports reached and its context is done,
\* the engine makes at most one attempt, and Run returns a context error,
\* whatever the attempt's outcome
C36_MaxExecTimeStopsAfterOneAttempt ==
  IsMaxExecTime
    => /\ tries <= 1
       /\ (tries = 1 /\ pc \in {"eval", "sleep", "check", "final", "done"})
            => /\ IsLimitReached(condition)
               /\ CtxErr(GetCtx(condition)) # "nil"
       /\ pc = "done" => result \in {"Canceled", "DeadlineExceeded"}

\* the only attempt exited 0, neither the deadline of the predicate nor the
\* caller's context has fired, and Run has returned the cancellation of the
\* predicate's context
C36_Witness ==
  /\ IsMaxExecTime
  /\ pc = "done"
  /\ tries = 1
  /\ attempt.how = "exit"
  /\ attempt.rc = 0
  /\ attempt.err = "nil"
  /\ ctx = "live"
  /\ condition.conditions[1].ctx = "Canceled"
  /\ result = "Canceled"

\* C37: Run returns nil only after at least one attempt, the last of which
\* had no process error or left a success predicate reached; a run whose
\* first loop test already finds the stop predicate reached does not
\* return nil
C37_NilOnlyAfterSuccessfulAttempt ==
  (pc = "done" /\ result = "nil")
    => /\ tries >= 1
       /\ attempt.err = "nil" \/ isSuccessConditionMet

\* a Success* predicate that is the stop predicate, or a direct
\* sub-condition of the composite stop predicate, reports reached
DirectSuccessReached ==
  \E i \in 1..Len(condition.conditions) :
    /\ isSuccessCondition(condition.conditions[i])
    /\ CondIsLimitReached(condition.conditions[i])

\* a Success* predicate one composite level deeper reports reached
NestedSuccessReached ==
  \E i \in 1..Len(condition.conditions) :
    /\ condition.conditions[i].kind = "CompositeCondition"
    /\ \E j \in 1..Len(condition.conditions[i].conditions) :
         /\ isSuccessCondition(condition.conditions[i].conditions[j])
         /\ CondIsLimitReached(condition.conditions[i].conditions[j])

\* the loop breaks on an attempt whose process failed when a direct Success*
\* predicate of the stop predicate is reached, and goes on otherwise, also
\* when a nested one is reached
SuccessFromStopPredicate ==
  [][(pc = "eval" /\ pc' # "eval" /\ successConditions = <<>> /\ err # "nil")
       => IF DirectSuccessReached THEN pc' = "final" /\ err' = "nil"
          ELSE pc' \in {"sleep", "check"} /\ err' = err]_vars

\* the last attempt of a finished run had a failed process
FailedLast ==
  /\ pc = "done"
  /\ successConditions = <<>>
  /\ tries >= 1
  /\ attempt.err # "nil"

\* C38 as stated: with no success predicates, when the stop predicate is or
\* directly contains a Success* predicate that is reached after an attempt
\* whose process failed, the loop breaks and Run returns nil; a Success*
\* predicate nested one level deeper does not make Run return nil
C38_SuccessFromStopPredicate ==
  /\ SuccessFromStopPredicate
  /\ []((FailedLast /\ DirectSuccessReached) => result = "nil")
  /\ []((FailedLast /\ ~DirectSuccessReached) => result # "nil")

\* C38 with the lifetimes: Run returns nil in that case unless the caller's
\* context or the stop predicate's context is done when Run returns, and
\* then it returns that context error
C38_SuccessFromStopPredicateUnlessDone ==
  /\ SuccessFromStopPredicate
  /\ []((FailedLast /\ DirectSuccessReached)
          => result = IF CtxErr(ctx) # "nil" THEN CtxErr(ctx)
                      ELSE IF CtxErr(GetCtx(condition)) # "nil"
                      THEN CtxErr(GetCtx(condition)) ELSE "nil")
  /\ []((FailedLast /\ ~DirectSuccessReached) => result # "nil")

\* the process failed, the SuccessContains held by the composite stop
\* predicate is reached, and Run has returned nil
C38_Witness ==
  /\ FailedLast
  /\ condition.composite
  /\ DirectSuccessReached
  /\ result = "nil"

\* the process failed twice, the nested SuccessContains is reached, and Run
\* has returned ErrMaxTriesReached
C38_NestedWitness ==
  /\ FailedLast
  /\ NestedSuccessReached
  /\ tries = 2
  /\ result = "ErrMaxTriesReached"

(***************************************************************************)
(* Properties of the calls a composite forwards.                           *)
(***************************************************************************)
\* the sub-conditions of the condition that call is forwarded to
Targets(call) ==
  {i \in 1..Len(condition.conditions) :
     \/ call \in {"StartTry", "EndTry"}
     \/ condition.conditions[i].kind \in EnhancedKinds}

\* C35: a call on a composite is forwarded once to each sub-condition it
\* concerns, in list order: StartTry and EndTry to every sub-condition,
\* SetLastExitCode and SetLastOutput, with the arguments given, to the
\* enhanced ones only; the other sub-conditions are left as they are
C35_CompositeFanOut ==
  /\ []((condition.composite /\ events # <<>>)
          => /\ \A i, j \in 1..Len(events) : i < j => events[i].on < events[j].on
             /\ \A i \in 1..Len(events) : events[i].call = events[1].call
             /\ {events[i].on : i \in 1..Len(events)} = Targets(events[1].call))
  /\ [][condition.composite
          => /\ nStartTry' # nStartTry
                  => /\ events' # <<>> => events'[1].call = "StartTry"
                     /\ Len(events') = Len(condition.conditions)
                     /\ \A i \in 1..Len(condition.conditions) :
                          condition'.conditions[i] =
                            CondStartTry(condition.conditions[i])
             /\ (events' # events /\ events' # <<>> /\ events'[1].call = "EndTry")
                  => /\ Len(events') = Len(condition.conditions)
                     /\ \A i \in 1..Len(condition.conditions) :
                          condition'.conditions[i] =
                            CondEndTry(condition.conditions[i])
             /\ fedCode' # fedCode
                  => /\ events' # <<>> => events'[1].call = "SetLastExitCode"
                     /\ Len(events') = Cardinality(Targets("SetLastExitCode"))
                     /\ \A i \in 1..Len(condition.conditions) :
                          condition'.conditions[i] =
                            IF i \in Targets("SetLastExitCode")
                            THEN CondSetLastExitCode(condition.conditions[i], fedCode')
                            ELSE condition.conditions[i]
             /\ fedOutput' # fedOutput
                  => /\ events' # <<>> => events'[1].call = "SetLastOutput"
                     /\ Len(events') = Cardinality(Targets("SetLastOutput"))
                     /\ \A i \in 1..Len(condition.conditions) :
                          condition'.conditions[i] =
                            IF i \in Targets("SetLastOutput")
                            THEN CondSetLastOutput(condition.conditions[i],
                                                   fedOutput'[1], fedOutput'[2])
                            ELSE condition.conditions[i]]_vars

\* SetLastExitCode(1) on a composite of a StopOnTimeout, a SuccessOnExitCode
\* and a StopOnMaxTries has reached the second sub-condition only, after a
\* StartTry that reached all three
C35_Witness ==
  /\ condition.composite
  /\ Len(condition.conditions) = 3
  /\ events = <<Event("SetLastExitCode", 2)>>
  /\ fedCode = 1
  /\ condition.conditions[2].flag
  /\ nStartTry = 1
  /\ condition.conditions[3].tries = 1
(***************************************************************************)
(* Properties of the executor with a logger attached.                      *)
(***************************************************************************)
\* the lines of a text: the pieces between its line ends
RECURSIVE Lines(_)
Lines(t) ==
  LET n == ReadString(t)
  IN IF n = 0 THEN <<t>>
     ELSE <<SubSeq(t, 1, n - 1)>> \o Lines(SubSeq(t, n + 1, Len(t)))

\* the non-empty lines among a sequence of lines
NonEmpty(ls) == SelectSeq(ls, LAMBDA l : l # <<>>)

\* the letters of the lines of each stream
Letters == <<{"a", "c"}, {"b"}>>

\* the recorded lines that came from stream k
OfStream(ls, k) == SelectSeq(ls, LAMBDA l : l # <<>> /\ l[1] \in Letters[k])

\* C39: with a logger attached, in every interleaving of the two streaming
\* goroutines each non-empty line delivered by either stream is recorded
\* exactly once in the Output of the attempt, and the lines of each stream
\* are recorded in the order written.
C39_EveryLineRecordedOnce ==
  (/\ executor.pc = "returned"
   /\ executor.process = "exited"
   /\ executor.logger.mode = "JSON"
   /\ executor.logger.attempts > 0)
  => \A k \in Streams :
       OfStream(Lines(executor.logger.output), k) = NonEmpty(Lines(executor.buf[k]))

\* both goroutines have read the same Output and are about to assign it
C39_BothRead ==
  /\ executor.writer[1].pc = "assign"
  /\ executor.writer[2].pc = "assign"
  /\ executor.writer[1].read = executor.writer[2].read

====
